---- MODULE Spec2Model ----
(***************************************************************************)
(* ICU message parser (icu/parser.ts), reconstructor (icu/reconstructor.ts)*)
(* and CLDR rule table (icu/cldr-rules.ts) of ai-i18n.                     *)
(*                                                                         *)
(* A JavaScript string is a sequence of one-character strings; positions   *)
(* are 0-based as in the source, so input[pos + 1] is the character the    *)
(* lexer calls inputStr[pos].                                              *)
(***************************************************************************)
EXTENDS Integers, Sequences, FiniteSets, TLC

VARIABLES
  message,       \* parseICUMessage: the argument
  pos,           \* ICULexer.pos
  elements,      \* parseICUMessage: elements
  variables,     \* parseICUMessage: variables (a Set, in insertion order)
  hasPlurals,    \* parseICUMessage: hasPlurals
  hasSelect,     \* parseICUMessage: hasSelect
  iter,          \* number of iterations of the top-level while loop so far
  pc,            \* "parse" | "returned" | "thrown" | "reconstructed" | "extracted" | "call" | "done"
  error,         \* the ICUParseError raised, or Undefined
  translations,  \* reconstructICUMessage: translations
  options,       \* reconstructICUMessage / reconstructPlural: options
  output,        \* the value returned by the function called last
  call,          \* a direct call of an exported function: its name and arguments
  validated,     \* reconstructPlural: validatedVariants
  events         \* the calls of the callbacks and timers handed in, and how they settled, in order

vars == <<message, pos, elements, variables, hasPlurals, hasSelect, iter, pc,
          error, translations, options, output, call, validated, events>>

\* undefined and NaN are tuples no string of the model equals (a string is a
\* tuple of one-character strings); a JavaScript number n is Number(n).
Undefined == <<"undefined">>
NaN == <<"NaN">>
Number(n) == <<"number", n>>
NumberValue(x) == x[2]

\* the element of a singleton: Only({e : r \in {v}}) is the rest e of a block
\* that starts with `const r = v`
Only(singleton) == CHOOSE x \in singleton : TRUE

-----------------------------------------------------------------------------
(* Bounds *)

MaxChunks == 3      \* chunks concatenated into one input message
MaxIter == 6        \* iterations of the top-level loop that are followed
MaxVariants == 3    \* variants in a directly supplied variant list
MaxSubtags == 2     \* subtags of a language tag, the primary one included
MaxPieces == 3      \* pieces concatenated into one probed message
MaxBatches == 3     \* batches handed to processSequentially
MaxRetries == 2     \* options.maxRetries of withRetry
MaxUnits == 2       \* translation units handed to buildUserPrompt

-----------------------------------------------------------------------------
(* Characters *)

Letters ==
  {"a", "b", "c", "d", "e", "f", "g", "h", "i", "j", "k", "l", "m",
   "n", "o", "p", "q", "r", "s", "t", "u", "v", "w", "x", "y", "z",
   "A", "B", "C", "D", "E", "F", "G", "H", "I", "J", "K", "L", "M",
   "N", "O", "P", "Q", "R", "S", "T", "U", "V", "W", "X", "Y", "Z"}

Digits == {"0", "1", "2", "3", "4", "5", "6", "7", "8", "9"}

\* /[a-zA-Z0-9_-]/.test(char)
IsIdentChar(c) == c \in Letters \cup Digits \cup {"_", "-"}

\* /\s/.test(char)
IsWhitespace(c) == c \in {" ", "\t", "\n", "\r"}

-----------------------------------------------------------------------------
(* ICULexer *)

peekAt(input, p, offset) ==
  IF p + offset >= 0 /\ p + offset < Len(input) THEN input[p + offset + 1]
  ELSE Undefined

peek(input, p) == peekAt(input, p, 0)

isEnd(input, p) == p >= Len(input)

RECURSIVE skipWhitespace(_, _)
skipWhitespace(input, p) ==
  IF ~isEnd(input, p) /\ IsWhitespace(peek(input, p))
  THEN skipWhitespace(input, p + 1)
  ELSE p

\* the loop advances while the character is an identifier character: it
\* stops at the first position that is the end or holds another character
readIdentifier(input, p) ==
  IF isEnd(input, p) THEN [result |-> <<>>, pos |-> p]
  ELSE LET end == CHOOSE q \in p..Len(input) :
                    /\ \A k \in (p + 1)..q : IsIdentChar(input[k])
                    /\ (q = Len(input) \/ ~IsIdentChar(input[q + 1]))
       IN  [result |-> SubSeq(input, p + 1, end), pos |-> end]

\* readUntil: one turn of the while loop on s = [result, pos, braceDepth];
\* a turn that breaks leaves s as it is
readUntilStep(input, s, chars) ==
  IF isEnd(input, s.pos) THEN s
  ELSE
    LET char == peek(input, s.pos)
        advance == [s EXCEPT !.result = Append(@, char), !.pos = @ + 1]
    IN  IF char = "{" THEN [advance EXCEPT !.braceDepth = @ + 1]
        ELSE IF char = "}" THEN
          IF s.braceDepth = 0 /\ "}" \in chars THEN s
          ELSE [advance EXCEPT !.braceDepth = @ - 1]
        ELSE IF s.braceDepth = 0 /\ char \in chars THEN s
        ELSE advance

\* readUntil: k turns of the while loop, the first half of them and then the rest
RECURSIVE readUntilLoop(_, _, _, _)
readUntilLoop(input, s, chars, k) ==
  IF k = 0 THEN s
  ELSE IF k = 1 THEN readUntilStep(input, s, chars)
  ELSE Only({readUntilLoop(input, half, chars, k - k \div 2)
             : half \in {readUntilLoop(input, s, chars, k \div 2)}})

\* every turn that does not break consumes a character, so Len(input) turns
\* run the loop to its end
readUntil(input, p, chars) ==
  readUntilLoop(input, [result |-> <<>>, pos |-> p, braceDepth |-> 0], chars,
                Len(input))

-----------------------------------------------------------------------------
(* JavaScript string and number helpers used by the parser and reconstructor *)

DigitValue(c) ==
  CASE c = "0" -> 0 [] c = "1" -> 1 [] c = "2" -> 2 [] c = "3" -> 3
    [] c = "4" -> 4 [] c = "5" -> 5 [] c = "6" -> 6 [] c = "7" -> 7
    [] c = "8" -> 8 [] c = "9" -> 9

DigitChar(d) ==
  CASE d = 0 -> "0" [] d = 1 -> "1" [] d = 2 -> "2" [] d = 3 -> "3"
    [] d = 4 -> "4" [] d = 5 -> "5" [] d = 6 -> "6" [] d = 7 -> "7"
    [] d = 8 -> "8" [] d = 9 -> "9"

\* the value of the maximal run of decimal digits starting at index i, continuing acc
RECURSIVE parseDigits(_, _, _)
parseDigits(str, i, acc) ==
  IF i <= Len(str) /\ str[i] \in Digits
  THEN parseDigits(str, i + 1, acc * 10 + DigitValue(str[i]))
  ELSE acc

\* parseInt(str, 10): optional blanks, optional sign, the leading digits; NaN without a digit
parseInt(str) ==
  LET s == skipWhitespace(str, 0) + 1
      signed == s <= Len(str) /\ str[s] \in {"-", "+"}
      d == IF signed THEN s + 1 ELSE s
  IN  IF d <= Len(str) /\ str[d] \in Digits
      THEN IF signed /\ str[s] = "-" THEN Number(0 - parseDigits(str, d, 0))
           ELSE Number(parseDigits(str, d, 0))
      ELSE NaN

\* `${n}` for an integer n
RECURSIVE natToString(_)
natToString(n) ==
  IF n < 10 THEN <<DigitChar(n)>>
  ELSE natToString(n \div 10) \o <<DigitChar(n % 10)>>

numberToString(n) == IF n < 0 THEN <<"-">> \o natToString(0 - n) ELSE natToString(n)

\* String.prototype.trim
RECURSIVE trimEnd(_)
trimEnd(str) ==
  IF Len(str) > 0 /\ IsWhitespace(str[Len(str)])
  THEN trimEnd(SubSeq(str, 1, Len(str) - 1))
  ELSE str

trim(str) == trimEnd(SubSeq(str, skipWhitespace(str, 0) + 1, Len(str)))

-----------------------------------------------------------------------------
(* ICU element types (icu/types.ts); a field an element lacks is Undefined *)

ICUElement(type, start, end) ==
  [type |-> type, start |-> start, end |-> end, value |-> Undefined,
   name |-> Undefined, argType |-> Undefined, format |-> Undefined,
   offset |-> Undefined, variants |-> Undefined, options |-> Undefined]

\* a text element whose start is taken after the text was read
ICUTextElementLateStart(value, start, end) ==
  [ICUElement("text", end, end) EXCEPT !.value = value]

ICUTextElement(value, start, end) ==
  [ICUElement("text", start, end) EXCEPT !.value = value]

ICUArgumentElement(name, argType, format, start, end) ==
  [ICUElement("argument", start, end) EXCEPT
     !.name = name, !.argType = argType, !.format = format]

ICUPluralElement(name, offset, variants, start, end) ==
  [ICUElement("plural", start, end) EXCEPT
     !.name = name, !.offset = offset, !.variants = variants]

ICUSelectOrdinalElement(name, variants, start, end) ==
  [ICUElement("selectordinal", start, end) EXCEPT
     !.name = name, !.variants = variants]

ICUSelectElement(name, opts, start, end) ==
  [ICUElement("select", start, end) EXCEPT !.name = name, !.options = opts]

PluralVariant(category, text) == [category |-> category, text |-> text]

SelectOption(key, value) == [key |-> key, value |-> value]

\* throw new ICUParseError(msg, message, position)
ICUParseError(msg, position) == [ok |-> FALSE, error |-> msg, pos |-> position]

-----------------------------------------------------------------------------
(* Parser *)

\* one turn that does not count an opening brace
readNestedStepFlat(input, s) ==
  IF isEnd(input, s.pos) \/ s.braceDepth = 0 THEN s
  ELSE
    LET char == peek(input, s.pos)
        advance == [s EXCEPT !.content = Append(@, char), !.pos = @ + 1]
    IN  IF char = "{" THEN advance
        ELSE IF char = "}" THEN
          IF s.braceDepth - 1 = 0
          THEN [s EXCEPT !.braceDepth = 0, !.pos = @ + 1]
          ELSE [advance EXCEPT !.braceDepth = @ - 1]
        ELSE IF char = "'" /\ peekAt(input, s.pos, 1) = "'"
        THEN [s EXCEPT !.content = @ \o <<"'", "'">>, !.pos = @ + 2]
        ELSE advance
\* readNestedContent: one turn of the while loop on s = [content, pos,
\* braceDepth]; the loop breaks when braceDepth reaches 0 and not before
readNestedStep(input, s) ==
  IF isEnd(input, s.pos) \/ s.braceDepth = 0 THEN s
  ELSE
    LET char == peek(input, s.pos)
        advance == [s EXCEPT !.content = Append(@, char), !.pos = @ + 1]
    IN  IF char = "{" THEN [advance EXCEPT !.braceDepth = @ + 1]
        ELSE IF char = "}" THEN
          IF s.braceDepth - 1 = 0
          THEN [s EXCEPT !.braceDepth = 0, !.pos = @ + 1]
          ELSE [advance EXCEPT !.braceDepth = @ - 1]
        ELSE IF char = "'" /\ peekAt(input, s.pos, 1) = "'"
        THEN [s EXCEPT !.content = @ \o <<"'", "'">>, !.pos = @ + 2]
        ELSE advance

\* readNestedContent: k turns of the while loop, the first half of them and then the rest
RECURSIVE readNestedLoop(_, _, _)
readNestedLoop(input, s, k) ==
  IF k = 0 THEN s
  ELSE IF k = 1 THEN readNestedStep(input, s)
  ELSE Only({readNestedLoop(input, half, k - k \div 2)
             : half \in {readNestedLoop(input, s, k \div 2)}})

\* every turn that does not break consumes a character, so Len(input) turns
\* run the loop to its end
readNestedContent(input, p) ==
  Only({(IF r.braceDepth # 0
          THEN ICUParseError("Unmatched braces in message", r.pos)
          ELSE [ok |-> TRUE, content |-> r.content, pos |-> r.pos])
        : r \in {readNestedLoop(input,
                                 [content |-> <<>>, pos |-> p, braceDepth |-> 1],
                                 Len(input))}})

\* parsePluralOrSelectordinal, "Check for offset"
parseOffsetDropped(input, p) ==
  LET p0 == skipWhitespace(input, p) IN
  IF peek(input, p0) = "," THEN
    LET offsetKeyword == readIdentifier(input, skipWhitespace(input, p0 + 1)) IN
    IF offsetKeyword.result = <<"o", "f", "f", "s", "e", "t">> THEN
      LET p1 == skipWhitespace(input, offsetKeyword.pos) IN
      IF peek(input, p1) = ":" THEN
        LET offsetStr == readIdentifier(input, skipWhitespace(input, p1 + 1))
            offset == parseInt(offsetStr.result)
        IN  IF offset = NaN
            THEN ICUParseError("Invalid offset value", offsetStr.pos)
            ELSE [ok |-> TRUE, offset |-> Undefined, pos |-> offsetStr.pos]
      ELSE [ok |-> TRUE, offset |-> Undefined, pos |-> p1]
    ELSE [ok |-> TRUE, offset |-> Undefined, pos |-> offsetKeyword.pos]
  ELSE [ok |-> TRUE, offset |-> Undefined, pos |-> p0]
parseOffset(input, p) ==
  LET p0 == skipWhitespace(input, p) IN
  IF peek(input, p0) = "," THEN
    LET offsetKeyword == readIdentifier(input, skipWhitespace(input, p0 + 1)) IN
    IF offsetKeyword.result = <<"o", "f", "f", "s", "e", "t">> THEN
      LET p1 == skipWhitespace(input, offsetKeyword.pos) IN
      IF peek(input, p1) = ":" THEN
        LET offsetStr == readIdentifier(input, skipWhitespace(input, p1 + 1))
            offset == parseInt(offsetStr.result)
        IN  IF offset = NaN
            THEN ICUParseError("Invalid offset value", offsetStr.pos)
            ELSE [ok |-> TRUE, offset |-> offset, pos |-> offsetStr.pos]
      ELSE [ok |-> TRUE, offset |-> Undefined, pos |-> p1]
    ELSE [ok |-> TRUE, offset |-> Undefined, pos |-> offsetKeyword.pos]
  ELSE [ok |-> TRUE, offset |-> Undefined, pos |-> p0]

\* parsePluralOrSelectordinal, "Parse variants"
RECURSIVE parseVariants(_, _)
parseVariants(input, p) ==
  IF isEnd(input, p) THEN [ok |-> TRUE, variants |-> <<>>, pos |-> p]
  ELSE
    LET p0 == skipWhitespace(input, p)
        char == peek(input, p0)
    IN
    IF char = "}" THEN [ok |-> TRUE, variants |-> <<>>, pos |-> p0 + 1]
    ELSE
      LET ident == readIdentifier(input, IF char = "=" THEN p0 + 1 ELSE p0)
          category == IF char = "=" THEN <<"=">> \o ident.result ELSE ident.result
          p1 == skipWhitespace(input, ident.pos)
      IN
      IF category = <<>> THEN ICUParseError("Expected plural category", ident.pos)
      ELSE IF peek(input, p1) # "{"
      THEN ICUParseError("Expected { after plural category", p1)
      ELSE
        Only({(IF ~text.ok THEN text
                ELSE Only({(IF ~rest.ok THEN rest
                            ELSE [rest EXCEPT
                                    !.variants =
                                      <<PluralVariant(category, text.content)>> \o @])
                          : rest \in {parseVariants(input, text.pos)}}))
              : text \in {readNestedContent(input, p1 + 1)}})

parsePluralOrSelectordinal(input, p, name, isOrdinal, start) ==
  Only({(IF ~off.ok THEN off
          ELSE Only({(IF ~vs.ok THEN vs
                      ELSE [ok |-> TRUE, pos |-> vs.pos,
                            element |->
                              IF isOrdinal
                              THEN ICUSelectOrdinalElement(name, vs.variants,
                                                           start, vs.pos)
                              ELSE ICUPluralElement(name, off.offset, vs.variants,
                                                    start, vs.pos)])
                    : vs \in {parseVariants(input, off.pos)}}))
        : off \in {parseOffset(input, p)}})

\* parseSelect, "Parse options"
RECURSIVE parseOptions(_, _)
parseOptions(input, p) ==
  IF isEnd(input, p) THEN [ok |-> TRUE, options |-> <<>>, pos |-> p]
  ELSE
    LET p0 == skipWhitespace(input, p)
        char == peek(input, p0)
    IN
    IF char = "}" THEN [ok |-> TRUE, options |-> <<>>, pos |-> p0 + 1]
    ELSE
      LET key == readIdentifier(input, p0)
          p1 == skipWhitespace(input, key.pos)
      IN
      IF key.result = <<>> THEN ICUParseError("Expected select key", key.pos)
      ELSE IF peek(input, p1) # "{"
      THEN ICUParseError("Expected { after select key", p1)
      ELSE
        Only({(IF ~value.ok THEN value
                ELSE Only({(IF ~rest.ok THEN rest
                            ELSE [rest EXCEPT
                                    !.options =
                                      <<SelectOption(key.result, value.content)>> \o @])
                          : rest \in {parseOptions(input, value.pos)}}))
              : value \in {readNestedContent(input, p1 + 1)}})

parseSelect(input, p, name, start) ==
  LET p0 == skipWhitespace(input, p)
      p1 == IF peek(input, p0) = "," THEN p0 + 1 ELSE p0
  IN  Only({(IF ~os.ok THEN os
              ELSE [ok |-> TRUE, pos |-> os.pos,
                    element |-> ICUSelectElement(name, os.options, start, os.pos)])
            : os \in {parseOptions(input, p1)}})

\* parseICUMessage, "Format argument: {name, type} or {name, type, format}"
parseFormatArgument(input, p, name, argType, start) ==
  LET hasFormat == peek(input, p) = ","
      format == IF hasFormat
                THEN readUntil(input, skipWhitespace(input, p + 1), {"}"})
                ELSE [result |-> Undefined, pos |-> p]
      p1 == skipWhitespace(input, format.pos)
  IN  IF peek(input, p1) # "}"
      THEN ICUParseError("Expected } after argument", p1)
      ELSE [ok |-> TRUE, pos |-> p1 + 1,
            element |->
              ICUArgumentElement(name, argType,
                IF hasFormat THEN trim(format.result) ELSE Undefined,
                start, p1 + 1)]

\* parseICUMessage, the branch of the top-level loop taken on '{';
\* name is Undefined when the error is raised before variables.add(name)
parseArgument(input, start) ==
  LET name == readIdentifier(input, skipWhitespace(input, start + 1))
      p0 == skipWhitespace(input, name.pos)
      nextChar == peek(input, p0)
  IN
  IF name.result = <<>>
  THEN ICUParseError("Expected identifier in argument", start)
         @@ [name |-> Undefined, kind |-> Undefined]
  ELSE IF nextChar = "}"
  THEN [ok |-> TRUE, pos |-> p0 + 1, name |-> name.result, kind |-> "argument",
        element |-> ICUArgumentElement(name.result, Undefined, Undefined,
                                       start, p0 + 1)]
  ELSE IF nextChar = ","
  THEN
    LET argType == readIdentifier(input, skipWhitespace(input, p0 + 1))
        p1 == skipWhitespace(input, argType.pos)
    IN
    IF argType.result \in {<<"p", "l", "u", "r", "a", "l">>, <<"s", "e", "l", "e", "c", "t", "o", "r", "d", "i", "n", "a", "l">>}
    THEN parsePluralOrSelectordinal(input, p1, name.result,
                                    argType.result = <<"s", "e", "l", "e", "c", "t", "o", "r", "d", "i", "n", "a", "l">>, start)
           @@ [name |-> name.result, kind |-> "plural"]
    ELSE IF argType.result = <<"s", "e", "l", "e", "c", "t">>
    THEN parseSelect(input, p1, name.result, start)
           @@ [name |-> name.result, kind |-> "select"]
    ELSE parseFormatArgument(input, p1, name.result, argType.result, start)
           @@ [name |-> name.result, kind |-> "argument"]
  ELSE ICUParseError("Unexpected character in argument", p0)
         @@ [name |-> name.result, kind |-> Undefined]

\* parseICUMessage, "Start of quoted string": the characters up to the next quote
readQuoted(input, p) ==
  IF isEnd(input, p) THEN [text |-> <<>>, pos |-> p]
  ELSE LET end == CHOOSE q \in p..Len(input) :
                    /\ \A k \in (p + 1)..q : input[k] # "'"
                    /\ (q = Len(input) \/ input[q + 1] = "'")
       IN  [text |-> SubSeq(input, p + 1, end), pos |-> end]

\* parseICUMessage, the "Plain text" branch: one turn of the inner while loop
\* on s = [text, pos]; a turn that breaks leaves s as it is
parseTextStep(input, s) ==
  IF isEnd(input, s.pos) THEN s
  ELSE
    LET c == peek(input, s.pos) IN
    IF c \in {"{", "}"} THEN s
    ELSE IF c = "'" /\ peekAt(input, s.pos, 1) = "'"
    THEN [text |-> s.text \o <<"'">>, pos |-> s.pos + 2]
    ELSE IF c = "'"
    THEN LET quoted == readQuoted(input, s.pos + 1)
         IN  [text |-> s.text \o quoted.text, pos |-> quoted.pos + 1]
    ELSE [text |-> Append(s.text, c), pos |-> s.pos + 1]

\* k turns of the inner while loop, the first half of them and then the rest
RECURSIVE parseTextLoop(_, _, _)
parseTextLoop(input, s, k) ==
  IF k = 0 THEN s
  ELSE IF k = 1 THEN parseTextStep(input, s)
  ELSE Only({parseTextLoop(input, half, k - k \div 2)
             : half \in {parseTextLoop(input, s, k \div 2)}})

\* every turn that does not break consumes a character, so Len(input) turns
\* run the loop to its end
parseText(input, p) == parseTextLoop(input, [text |-> <<>>, pos |-> p], Len(input))

\* variables.add(name)
SetAdd(set, name) ==
  IF \E i \in 1..Len(set) : set[i] = name THEN set ELSE Append(set, name)

\* one iteration of the top-level while loop of parseICUMessage on state st
parseIteration(input, st) ==
  IF peek(input, st.pos) = "{" THEN
    Only({
      [status |-> IF r.ok THEN "parse" ELSE "thrown",
       pos |-> IF r.ok THEN r.pos ELSE st.pos,
       elements |-> IF r.ok THEN Append(st.elements, r.element) ELSE st.elements,
       variables |-> IF r.name # Undefined THEN SetAdd(st.variables, r.name)
                     ELSE st.variables,
       hasPlurals |-> (st.hasPlurals \/ r.kind = "plural"),
       hasSelect |-> (st.hasSelect \/ r.kind = "select"),
       error |-> IF r.ok THEN Undefined ELSE <<r.error, r.pos>>]
      : r \in {parseArgument(input, st.pos)}})
  ELSE
    Only({
      [st EXCEPT
         !.pos = r.pos,
         !.elements = IF r.text # <<>>
                      THEN Append(@, ICUTextElement(r.text, st.pos, r.pos))
                      ELSE @]
      : r \in {parseText(input, st.pos)}})

\* the state parseICUMessage starts its loop in
parseStart ==
  [status |-> "parse", pos |-> 0, elements |-> <<>>, variables |-> <<>>,
   hasPlurals |-> FALSE, hasSelect |-> FALSE, error |-> Undefined]

\* parseICUMessage as a function: "returned", "thrown", or "hang" when an
\* iteration leaves the whole loop state as it was
RECURSIVE parseLoop(_, _)
parseLoop(input, st) ==
  IF isEnd(input, st.pos) THEN [st EXCEPT !.status = "returned"]
  ELSE Only({(IF next.status = "thrown" THEN next
              ELSE IF next = st THEN [st EXCEPT !.status = "hang"]
              ELSE parseLoop(input, next))
            : next \in {parseIteration(input, st)}})

parseICUMessage(input) == parseLoop(input, parseStart)

-----------------------------------------------------------------------------
(* CLDR rule table (icu/cldr-rules.ts) *)

zero == <<"z", "e", "r", "o">>
one == <<"o", "n", "e">>
two == <<"t", "w", "o">>
few == <<"f", "e", "w">>
many == <<"m", "a", "n", "y">>
other == <<"o", "t", "h", "e", "r">>

PluralRuleSet(cardinal, ordinal, cardinalExamples, ordinalExamples) ==
  [cardinalCategories |-> cardinal, ordinalCategories |-> ordinal,
   cardinalExamples |-> cardinalExamples, ordinalExamples |-> ordinalExamples]

\* an example number that is no integer: n / 2
Half(n) == <<n, 2>>

PLURAL_RULES ==
  (<<"e", "n">> :> PluralRuleSet(<<one, other>>, <<one, two, few, other>>,
            (one :> <<1>> @@ other :> <<0, 2, 3, 4, 5, 10, 100>>),
            (one :> <<1, 21, 31, 41>> @@ two :> <<2, 22, 32, 42>> @@ few :> <<3, 23, 33, 43>> @@ other :> <<4, 5, 6, 7, 8, 9, 10, 11, 12, 13>>))) @@
  (<<"d", "e">> :> PluralRuleSet(<<one, other>>, <<other>>,
            (one :> <<1>> @@ other :> <<0, 2, 3, 4, 5, 10, 100>>),
            (other :> <<1, 2, 3, 4, 5, 10, 100>>))) @@
  (<<"f", "r">> :> PluralRuleSet(<<one, many, other>>, <<one, other>>,
            (one :> <<0, 1>> @@ many :> <<1000000>> @@ other :> <<2, 3, 4, 5, 10, 100>>),
            (one :> <<1>> @@ other :> <<2, 3, 4, 5, 10, 100>>))) @@
  (<<"e", "s">> :> PluralRuleSet(<<one, many, other>>, <<other>>,
            (one :> <<1>> @@ many :> <<1000000>> @@ other :> <<0, 2, 3, 4, 5, 10, 100>>),
            (other :> <<1, 2, 3, 4, 5, 10, 100>>))) @@
  (<<"i", "t">> :> PluralRuleSet(<<one, many, other>>, <<many, other>>,
            (one :> <<1>> @@ many :> <<1000000>> @@ other :> <<0, 2, 3, 4, 5, 10, 100>>),
            (many :> <<8, 11, 80, 800>> @@ other :> <<1, 2, 3, 4, 5, 10, 100>>))) @@
  (<<"p", "t">> :> PluralRuleSet(<<one, many, other>>, <<other>>,
            (one :> <<1>> @@ many :> <<1000000>> @@ other :> <<0, 2, 3, 4, 5, 10, 100>>),
            (other :> <<1, 2, 3, 4, 5, 10, 100>>))) @@
  (<<"r", "u">> :> PluralRuleSet(<<one, few, many, other>>, <<other>>,
            (one :> <<1, 21, 31, 41, 51, 61>> @@ few :> <<2, 3, 4, 22, 23, 24, 32, 33, 34>> @@ many :> <<0, 5, 6, 7, 8, 9, 10, 11, 12, 13, 14, 15, 16, 17, 18, 19, 20>> @@ other :> <<Half(3), Half(5)>>),
            (other :> <<1, 2, 3, 4, 5, 10, 100>>))) @@
  (<<"p", "l">> :> PluralRuleSet(<<one, few, many, other>>, <<other>>,
            (one :> <<1>> @@ few :> <<2, 3, 4, 22, 23, 24, 32, 33, 34>> @@ many :> <<0, 5, 6, 7, 8, 9, 10, 11, 12, 13, 14, 15, 16, 17, 18, 19, 20, 25>> @@ other :> <<Half(3), Half(5)>>),
            (other :> <<1, 2, 3, 4, 5, 10, 100>>))) @@
  (<<"u", "k">> :> PluralRuleSet(<<one, few, many, other>>, <<few, other>>,
            (one :> <<1, 21, 31, 41>> @@ few :> <<2, 3, 4, 22, 23, 24, 32, 33, 34>> @@ many :> <<0, 5, 6, 7, 8, 9, 10, 11, 12, 13, 14, 15, 16, 17, 18, 19, 20>> @@ other :> <<Half(3), Half(5)>>),
            (few :> <<3, 23, 33, 43>> @@ other :> <<1, 2, 4, 5, 10, 100>>))) @@
  (<<"a", "r">> :> PluralRuleSet(<<zero, one, two, few, many, other>>, <<other>>,
            (zero :> <<0>> @@ one :> <<1>> @@ two :> <<2>> @@ few :> <<3, 4, 5, 6, 7, 8, 9, 10, 103, 104, 105>> @@ many :> <<11, 12, 13, 14, 15, 16, 17, 18, 19, 99, 111, 112>> @@ other :> <<100, 101, 102, 200, 201, 202>>),
            (other :> <<1, 2, 3, 4, 5, 10, 100>>))) @@
  (<<"j", "a">> :> PluralRuleSet(<<other>>, <<other>>,
            (other :> <<0, 1, 2, 3, 4, 5, 10, 100>>),
            (other :> <<1, 2, 3, 4, 5, 10, 100>>))) @@
  (<<"z", "h">> :> PluralRuleSet(<<other>>, <<other>>,
            (other :> <<0, 1, 2, 3, 4, 5, 10, 100>>),
            (other :> <<1, 2, 3, 4, 5, 10, 100>>))) @@
  (<<"k", "o">> :> PluralRuleSet(<<other>>, <<other>>,
            (other :> <<0, 1, 2, 3, 4, 5, 10, 100>>),
            (other :> <<1, 2, 3, 4, 5, 10, 100>>))) @@
  (<<"t", "r">> :> PluralRuleSet(<<one, other>>, <<other>>,
            (one :> <<1>> @@ other :> <<0, 2, 3, 4, 5, 10, 100>>),
            (other :> <<1, 2, 3, 4, 5, 10, 100>>))) @@
  (<<"n", "l">> :> PluralRuleSet(<<one, other>>, <<other>>,
            (one :> <<1>> @@ other :> <<0, 2, 3, 4, 5, 10, 100>>),
            (other :> <<1, 2, 3, 4, 5, 10, 100>>))) @@
  (<<"s", "v">> :> PluralRuleSet(<<one, other>>, <<one, other>>,
            (one :> <<1>> @@ other :> <<0, 2, 3, 4, 5, 10, 100>>),
            (one :> <<1, 2, 21, 22, 31, 32>> @@ other :> <<3, 4, 5, 10, 100>>))) @@
  (<<"n", "b">> :> PluralRuleSet(<<one, other>>, <<other>>,
            (one :> <<1>> @@ other :> <<0, 2, 3, 4, 5, 10, 100>>),
            (other :> <<1, 2, 3, 4, 5, 10, 100>>))) @@
  (<<"d", "a">> :> PluralRuleSet(<<one, other>>, <<other>>,
            (one :> <<1>> @@ other :> <<0, 2, 3, 4, 5, 10, 100>>),
            (other :> <<1, 2, 3, 4, 5, 10, 100>>))) @@
  (<<"f", "i">> :> PluralRuleSet(<<one, other>>, <<other>>,
            (one :> <<1>> @@ other :> <<0, 2, 3, 4, 5, 10, 100>>),
            (other :> <<1, 2, 3, 4, 5, 10, 100>>))) @@
  (<<"c", "s">> :> PluralRuleSet(<<one, few, many, other>>, <<other>>,
            (one :> <<1>> @@ few :> <<2, 3, 4>> @@ many :> <<Half(3), Half(5)>> @@ other :> <<0, 5, 6, 7, 8, 9, 10, 11, 100>>),
            (other :> <<1, 2, 3, 4, 5, 10, 100>>))) @@
  (<<"h", "e">> :> PluralRuleSet(<<one, two, many, other>>, <<other>>,
            (one :> <<1>> @@ two :> <<2>> @@ many :> <<20, 30, 100>> @@ other :> <<0, 3, 4, 5, 10, 11, 12>>),
            (other :> <<1, 2, 3, 4, 5, 10, 100>>))) @@
  (<<"h", "i">> :> PluralRuleSet(<<one, other>>, <<one, two, few, many, other>>,
            (one :> <<0, 1>> @@ other :> <<2, 3, 4, 5, 10, 100>>),
            (one :> <<1>> @@ two :> <<2, 3>> @@ few :> <<4>> @@ many :> <<6>> @@ other :> <<5, 7, 8, 9, 10, 100>>))) @@
  (<<"t", "h">> :> PluralRuleSet(<<other>>, <<other>>,
            (other :> <<0, 1, 2, 3, 4, 5, 10, 100>>),
            (other :> <<1, 2, 3, 4, 5, 10, 100>>))) @@
  (<<"v", "i">> :> PluralRuleSet(<<other>>, <<one, other>>,
            (other :> <<0, 1, 2, 3, 4, 5, 10, 100>>),
            (one :> <<1>> @@ other :> <<2, 3, 4, 5, 10, 100>>)))

DEFAULT_RULES ==
  PluralRuleSet(<<one, other>>, <<other>>,
                (one :> <<1>> @@ other :> <<0, 2, 3, 4, 5, 10, 100>>),
                (other :> <<1, 2, 3, 4, 5, 10, 100>>))

\* PLURAL_RULES is an object literal: a key it does not hold itself is looked
\* up in Object.prototype. These are the members with a lowercase name, and
\* none of them has a property of a rule set.
ObjectPrototype ==
  (<<"c", "o", "n", "s", "t", "r", "u", "c", "t", "o", "r">> :> [inherited |-> "Object"]) @@
  (<<"_", "_", "p", "r", "o", "t", "o", "_", "_">> :> [inherited |-> "Object.prototype"])

\* object[name]: undefined when the object has no such property
Property(object, name) ==
  IF name \in DOMAIN object THEN object[name] ELSE Undefined

UpperCase == <<"A", "B", "C", "D", "E", "F", "G", "H", "I", "J", "K", "L", "M", "N", "O", "P", "Q", "R", "S", "T", "U", "V", "W", "X", "Y", "Z">>
LowerCase == <<"a", "b", "c", "d", "e", "f", "g", "h", "i", "j", "k", "l", "m", "n", "o", "p", "q", "r", "s", "t", "u", "v", "w", "x", "y", "z">>

\* String.prototype.toLowerCase
toLowerCase(str) ==
  [i \in 1..Len(str) |->
     IF \E k \in 1..26 : UpperCase[k] = str[i]
     THEN LowerCase[CHOOSE k \in 1..26 : UpperCase[k] = str[i]]
     ELSE str[i]]

\* str.split('-')[0]
RECURSIVE firstSubtag(_)
firstSubtag(str) ==
  IF str = <<>> \/ Head(str) = "-" THEN <<>>
  ELSE <<Head(str)>> \o firstSubtag(Tail(str))

getPluralRules(languageCode) ==
  LET normalized == firstSubtag(toLowerCase(languageCode)) IN
  IF normalized = <<>> THEN DEFAULT_RULES
  ELSE IF normalized \in DOMAIN PLURAL_RULES THEN PLURAL_RULES[normalized]
  ELSE IF normalized \in DOMAIN ObjectPrototype THEN ObjectPrototype[normalized]
  ELSE DEFAULT_RULES

getCardinalCategories(languageCode) ==
  Property(getPluralRules(languageCode), "cardinalCategories")

getOrdinalCategories(languageCode) ==
  Property(getPluralRules(languageCode), "ordinalCategories")

\* reading a property of undefined
TypeError == <<"TypeError">>

\* the examples taken from the cardinal table whatever isOrdinal is
getCategoryExamplesCardinal(languageCode, category, isOrdinal) ==
  LET rules == getPluralRules(languageCode) IN
  IF "cardinalExamples" \notin DOMAIN rules THEN TypeError
  ELSE IF category \in DOMAIN rules.cardinalExamples
  THEN rules.cardinalExamples[category]
  ELSE <<>>

getCategoryExamples(languageCode, category, isOrdinal) ==
  LET rules == getPluralRules(languageCode)
      examples == IF isOrdinal THEN "ordinalExamples" ELSE "cardinalExamples"
  IN  IF examples \notin DOMAIN rules THEN TypeError
      ELSE IF category \in DOMAIN rules[examples] THEN rules[examples][category]
      ELSE <<>>

-----------------------------------------------------------------------------
(* Reconstructor (icu/reconstructor.ts) *)

\* a JavaScript value that is undefined or the empty string
Falsy(v) == v = Undefined \/ v = <<>>

\* the order String.prototype.localeCompare puts characters in
Collation ==
  <<"_", "-", "=", "0", "1", "2", "3", "4", "5", "6", "7", "8", "9", "a", "A", "b", "B", "c", "C", "d", "D", "e", "E", "f", "F", "g", "G", "h", "H", "i", "I", "j", "J", "k", "K", "l", "L", "m", "M", "n", "N", "o", "O", "p", "P", "q", "Q", "r", "R", "s", "S", "t", "T", "u", "U", "v", "V", "w", "W", "x", "X", "y", "Y", "z", "Z">>

CollationRank(c) == CHOOSE k \in 1..Len(Collation) : Collation[k] = c

\* a.localeCompare(b): negative, zero or positive
RECURSIVE localeCompare(_, _)
localeCompare(a, b) ==
  IF a = <<>> /\ b = <<>> THEN 0
  ELSE IF a = <<>> THEN -1
  ELSE IF b = <<>> THEN 1
  ELSE IF Head(a) = Head(b) THEN localeCompare(Tail(a), Tail(b))
  ELSE IF CollationRank(Head(a)) < CollationRank(Head(b)) THEN -1
  ELSE 1

categoryOrder == <<zero, one, two, few, many, other>>

\* categoryOrder.indexOf(category)
indexOf(category) ==
  IF \E k \in 1..Len(categoryOrder) : categoryOrder[k] = category
  THEN (CHOOSE k \in 1..Len(categoryOrder) : categoryOrder[k] = category) - 1
  ELSE -1

\* category.startsWith('=')
IsExact(category) == Len(category) > 0 /\ category[1] = "="

\* the comparator without its exact-match test
compareVariantsNoExact(a, b) ==
  LET aIndex == indexOf(a.category)
      bIndex == indexOf(b.category)
  IN  IF aIndex = -1 /\ bIndex = -1 THEN localeCompare(a.category, b.category)
      ELSE IF aIndex = -1 THEN 1
      ELSE IF bIndex = -1 THEN -1
      ELSE aIndex - bIndex

\* validatePluralVariants: the comparator handed to result.sort
compareVariants(a, b) ==
  LET aIsExact == IsExact(a.category)
      bIsExact == IsExact(b.category)
      aIndex == indexOf(a.category)
      bIndex == indexOf(b.category)
  IN  IF aIsExact /\ ~bIsExact THEN -1
      ELSE IF ~aIsExact /\ bIsExact THEN 1
      ELSE IF aIndex = -1 /\ bIndex = -1 THEN localeCompare(a.category, b.category)
      ELSE IF aIndex = -1 THEN 1
      ELSE IF bIndex = -1 THEN -1
      ELSE aIndex - bIndex

\* Array.prototype.sort is stable: v goes after the last element not greater than it
RECURSIVE insertSorted(_, _)
insertSorted(sorted, v) ==
  IF sorted = <<>> THEN <<v>>
  ELSE IF compareVariants(sorted[Len(sorted)], v) <= 0 THEN Append(sorted, v)
  ELSE Append(insertSorted(SubSeq(sorted, 1, Len(sorted) - 1), v), sorted[Len(sorted)])

RECURSIVE sort(_)
sort(list) ==
  IF list = <<>> THEN <<>>
  ELSE insertSorted(sort(SubSeq(list, 1, Len(list) - 1)), list[Len(list)])

\* the step without its fallback
ensureOtherSkipped(variants, existingCategories) == variants

\* validatePluralVariants, "Ensure 'other' is always present": result after the step
ensureOther(variants, existingCategories) ==
  IF other \notin existingCategories /\ Len(variants) > 0
  THEN Append(variants, PluralVariant(other, variants[1].text))
  ELSE variants

\* result.find(v => v.category === 'other')?.text ?? ''
otherText(result) ==
  IF \E i \in 1..Len(result) : result[i].category = other
  THEN result[CHOOSE i \in 1..Len(result) :
                /\ result[i].category = other
                /\ \A j \in 1..(i - 1) : result[j].category # other].text
  ELSE <<>>

\* validatePluralVariants, "Add missing required categories with 'other' text as fallback"
addMissing(result, requiredCategories, existingCategories) ==
  LET missing == SelectSeq(requiredCategories, LAMBDA c : c \notin existingCategories)
  IN  result \o [i \in 1..Len(missing) |-> PluralVariant(missing[i], otherText(result))]

validatePluralVariants(variants, targetLanguage, isOrdinal) ==
  LET requiredCategories ==
        IF isOrdinal THEN getOrdinalCategories(targetLanguage)
        ELSE getCardinalCategories(targetLanguage)
      existingCategories == {variants[i].category : i \in 1..Len(variants)}
  IN  sort(addMissing(ensureOther(variants, existingCategories),
                      requiredCategories, existingCategories))

\* options?.validateCategories ? validatePluralVariants(...) : variants
validatedVariants(variants, opts, isOrdinal) ==
  IF opts.validateCategories
  THEN validatePluralVariants(variants,
         IF opts.targetLanguage = Undefined THEN <<"e", "n">> ELSE opts.targetLanguage,
         isOrdinal)
  ELSE variants

\* the same, with result being the array `variants` itself
validatePluralVariantsInPlace(variants, targetLanguage, isOrdinal) ==
  [variants |-> validatePluralVariants(variants, targetLanguage, isOrdinal),
   requiredCategories |-> IF isOrdinal THEN getOrdinalCategories(targetLanguage)
                          ELSE getCardinalCategories(targetLanguage),
   result |-> validatePluralVariants(variants, targetLanguage, isOrdinal)]
\* validatePluralVariants: the arrays it holds when it returns. result is an
\* array of its own (`const result = []`); every push and the sort write to
\* it, variants and requiredCategories are only read
validatePluralVariantsArrays(variants, targetLanguage, isOrdinal) ==
  [variants |-> variants,
   requiredCategories |-> IF isOrdinal THEN getOrdinalCategories(targetLanguage)
                          ELSE getCardinalCategories(targetLanguage),
   result |-> validatePluralVariants(variants, targetLanguage, isOrdinal)]

\* reconstructPlural / reconstructSelectordinal: the array `variants` when the
\* call returns
variantsAfter(variants, opts, isOrdinal) ==
  IF opts.validateCategories
  THEN validatePluralVariantsArrays(variants,
         IF opts.targetLanguage = Undefined THEN <<"e", "n">> ELSE opts.targetLanguage,
         isOrdinal).variants
  ELSE variants

\* the loop result += ` ${variant.category} {${variant.text}}`
RECURSIVE emitVariants(_)
emitVariants(vs) ==
  IF vs = <<>> THEN <<>>
  ELSE <<" ">> \o Head(vs).category \o <<" ", "{">> \o Head(vs).text \o <<"}">>
         \o emitVariants(Tail(vs))

reconstructArgument(name, argType, format) ==
  IF Falsy(argType) THEN <<"{">> \o name \o <<"}">>
  ELSE IF Falsy(format) THEN <<"{">> \o name \o <<",", " ">> \o argType \o <<"}">>
  ELSE <<"{">> \o name \o <<",", " ">> \o argType \o <<",", " ">> \o format \o <<"}">>

reconstructPlural(name, variants, offset, opts) ==
  <<"{">> \o name \o <<",", " ", "p", "l", "u", "r", "a", "l", ",">>
    \o (IF offset # Undefined /\ NumberValue(offset) > 0
        THEN <<" ", "o", "f", "f", "s", "e", "t", ":">> \o numberToString(NumberValue(offset)) ELSE <<>>)
    \o emitVariants(validatedVariants(variants, opts, FALSE))
    \o <<"}">>

reconstructSelectordinal(name, variants, opts) ==
  <<"{">> \o name \o <<",", " ", "s", "e", "l", "e", "c", "t", "o", "r", "d", "i", "n", "a", "l", ",">>
    \o emitVariants(validatedVariants(variants, opts, TRUE))
    \o <<"}">>

\* the loop result += ` ${option.key} {${option.value}}`
RECURSIVE emitOptions(_)
emitOptions(os) ==
  IF os = <<>> THEN <<>>
  ELSE <<" ">> \o Head(os).key \o <<" ", "{">> \o Head(os).value \o <<"}">>
         \o emitOptions(Tail(os))

reconstructSelect(name, opts) ==
  <<"{">> \o name \o <<",", " ", "s", "e", "l", "e", "c", "t", ",">> \o emitOptions(opts) \o <<"}">>

\* map?.get(key), and whether it is defined
MapHas(map, key) == key \in DOMAIN map
MapGet(map, key) == IF MapHas(map, key) THEN map[key] ELSE Undefined

\* reconstructICUMessage: the string one element contributes (i is 0-based)
reconstructElement(element, i, trans, opts) ==
  CASE element.type = "text" ->
         LET translated == MapGet(trans.text, i)
         IN  IF translated = Undefined THEN element.value ELSE translated
    [] element.type = "argument" ->
         reconstructArgument(element.name, element.argType, element.format)
    [] element.type = "plural" ->
         LET translation == MapGet(trans.plurals, element.name)
         IN  IF MapHas(trans.plurals, element.name)
             THEN reconstructPlural(element.name, translation.translations,
                                    element.offset, opts)
             ELSE reconstructPlural(element.name, element.variants,
                                    element.offset, opts)
    [] element.type = "selectordinal" ->
         LET translation == MapGet(trans.plurals, element.name)
         IN  IF MapHas(trans.plurals, element.name)
             THEN reconstructSelectordinal(element.name, translation.translations, opts)
             ELSE reconstructSelectordinal(element.name, element.variants, opts)
    [] element.type = "select" ->
         LET translation == MapGet(trans.selects, element.name)
         IN  IF MapHas(trans.selects, element.name)
             THEN reconstructSelect(element.name, translation.translations)
             ELSE reconstructSelect(element.name, element.options)

RECURSIVE reconstructFrom(_, _, _, _)
reconstructFrom(elems, i, trans, opts) ==
  IF i >= Len(elems) THEN <<>>
  ELSE reconstructElement(elems[i + 1], i, trans, opts)
         \o reconstructFrom(elems, i + 1, trans, opts)

reconstructICUMessage(parsed, trans, opts) ==
  reconstructFrom(parsed.elements, 0, trans, opts)

\* reconstructICUMessage: parsed.elements when the call returns. An element
\* without translation hands its own variants to reconstructPlural or
\* reconstructSelectordinal
elementsAfter(elems, trans, opts) ==
  [i \in 1..Len(elems) |->
     IF elems[i].type \in {"plural", "selectordinal"} /\ ~MapHas(trans.plurals, elems[i].name)
     THEN [elems[i] EXCEPT
             !.variants = variantsAfter(@, opts, elems[i].type = "selectordinal")]
     ELSE elems[i]]

\* reconstructICUMessage: translations when the call returns. The list of a
\* name is handed to reconstructPlural or reconstructSelectordinal when an
\* element of that name is met
translationsAfter(elems, trans, opts) ==
  [trans EXCEPT
     !.plurals =
       [name \in DOMAIN trans.plurals |->
          IF \E i \in 1..Len(elems) : elems[i].type = "plural" /\ elems[i].name = name
          THEN [trans.plurals[name] EXCEPT !.translations = variantsAfter(@, opts, FALSE)]
          ELSE IF \E i \in 1..Len(elems) :
                    elems[i].type = "selectordinal" /\ elems[i].name = name
          THEN [trans.plurals[name] EXCEPT !.translations = variantsAfter(@, opts, TRUE)]
          ELSE trans.plurals[name]]]

Quote == <<"\"">>

\* a segment that loses the index of its element
SegmentFirstIndex(index, text, context) ==
  [index |-> 0, text |-> text, context |-> context]

\* extractTextSegments: segments.push({ index: i, text, context })
Segment(index, text, context) ==
  [index |-> index, text |-> text, context |-> context]

\* extractTextSegments: the segments pushed for the element at index i
segmentsOf(element, i) ==
  IF element.type = "text"
  THEN <<Segment(i, element.value, Undefined)>>
  ELSE IF element.type \in {"plural", "selectordinal"}
  THEN [k \in 1..Len(element.variants) |->
          Segment(i, element.variants[k].text,
                  <<"P", "l", "u", "r", "a", "l", " ", "f", "o", "r", "m", " ">> \o Quote \o element.variants[k].category \o Quote
                    \o <<" ", "f", "o", "r", " ", "v", "a", "r", "i", "a", "b", "l", "e", " ", "{">> \o element.name \o <<"}">>)]
  ELSE IF element.type = "select"
  THEN [k \in 1..Len(element.options) |->
          Segment(i, element.options[k].value,
                  <<"S", "e", "l", "e", "c", "t", " ", "o", "p", "t", "i", "o", "n", " ">> \o Quote \o element.options[k].key \o Quote
                    \o <<" ", "f", "o", "r", " ", "v", "a", "r", "i", "a", "b", "l", "e", " ", "{">> \o element.name \o <<"}">>)]
  ELSE <<>>

RECURSIVE extractFrom(_, _)
extractFrom(elems, i) ==
  IF i >= Len(elems) THEN <<>>
  ELSE segmentsOf(elems[i + 1], i) \o extractFrom(elems, i + 1)

extractTextSegments(parsed) == extractFrom(parsed.elements, 0)

-----------------------------------------------------------------------------
(* Inputs *)

\* pieces of ICU syntax; an input message is a concatenation of at most MaxChunks of them
Chunks ==
  {<<"a">>, <<"'">>, <<"{">>, <<"}">>,
   <<"{", "n", "}">>, <<"{", " ", "n", " ", "}">>, <<"{", "n", ",", " ", "n", "u", "m", "b", "e", "r", "}">>, <<"{", "n", ",", "d", "a", "t", "e", ",", " ", " ", "s", "h", "o", "r", "t", " ", "}">>,
   <<"{", "v", ",", " ", "p", "l", "u", "r", "a", "l", ",">>, <<"{", "v", ",", " ", "s", "e", "l", "e", "c", "t", "o", "r", "d", "i", "n", "a", "l", ",">>, <<"{", "g", ",", " ", "s", "e", "l", "e", "c", "t", ",">>,
   <<" ", "o", "f", "f", "s", "e", "t", ":", "1">>, <<" ", "o", "n", "e", " ", "{", "a", "}">>, <<" ", "=", "0", " ", "{", "c", "}">>, <<" ", "o", "t", "h", "e", "r", " ", "{", "b", " ", "{", "m", "}", "}">>}

RECURSIVE Concatenations(_)
Concatenations(n) ==
  IF n = 0 THEN {<<>>}
  ELSE LET shorter == Concatenations(n - 1)
       IN  shorter \cup {m \o c : m \in shorter, c \in Chunks}

count == <<"c", "o", "u", "n", "t">>

ScenarioA == <<"H", "e", "l", "l", "o", ",", " ", "{", "n", "a", "m", "e", "}", "!">>
ScenarioB == <<"{", "c", "o", "u", "n", "t", ",", " ", "p", "l", "u", "r", "a", "l", ",", " ", "o", "f", "f", "s", "e", "t", ":", "1", " ", "=", "0", " ", "{", "N", "o", " ", "i", "t", "e", "m", "s", "}", " ", "o", "n", "e", " ", "{", "O", "n", "e", " ", "i", "t", "e", "m", "}", " ", "o", "t", "h", "e", "r", " ", "{", "#", " ", "i", "t", "e", "m", "s", "}", "}">>
ScenarioE == <<"{", "g", "e", "n", "d", "e", "r", ",", " ", "s", "e", "l", "e", "c", "t", ",", " ", "m", "a", "l", "e", " ", "{", "{", "c", "o", "u", "n", "t", ",", " ", "p", "l", "u", "r", "a", "l", ",", " ", "o", "n", "e", " ", "{", "#", " ", "i", "t", "e", "m", "}", " ", "o", "t", "h", "e", "r", " ", "{", "#", " ", "i", "t", "e", "m", "s", "}", "}", "}", " ", "o", "t", "h", "e", "r", " ", "{", "T", "h", "e", "y", "}", "}">>
ReadmeExample == <<"{", "c", "o", "u", "n", "t", ",", " ", "p", "l", "u", "r", "a", "l", ",", " ", "o", "n", "e", " ", "{", "#", " ", "i", "t", "e", "m", "}", " ", "o", "t", "h", "e", "r", " ", "{", "#", " ", "i", "t", "e", "m", "s", "}", "}">>
TypedExample == <<"B", "a", "l", "a", "n", "c", "e", ":", " ", "{", "a", "m", "o", "u", "n", "t", ",", " ", "n", "u", "m", "b", "e", "r", ",", " ", "c", "u", "r", "r", "e", "n", "c", "y", "}">>
OrdinalExample == <<"{", "p", "l", "a", "c", "e", ",", " ", "s", "e", "l", "e", "c", "t", "o", "r", "d", "i", "n", "a", "l", ",", " ", "o", "n", "e", " ", "{", "#", "s", "t", "}", " ", "t", "w", "o", " ", "{", "#", "n", "d", "}", " ", "f", "e", "w", " ", "{", "#", "r", "d", "}", " ", "o", "t", "h", "e", "r", " ", "{", "#", "t", "h", "}", "}">>

\* an argument with a format after an empty type
EmptyTypeExample == <<"{", "n", ",", ",", "x", "}">>

\* plurals with an offset clause, the last three with a value that is not a
\* decimal integer
OffsetExamples ==
  {<<"{", "n", ",", " ", "p", "l", "u", "r", "a", "l", ",", " ", "o", "f", "f", "s", "e", "t", ":", "1", "2", " ", "o", "n", "e", " ", "{", "a", "}", " ", "o", "t", "h", "e", "r", " ", "{", "b", "}", "}">>,
   <<"{", "v", ",", " ", "p", "l", "u", "r", "a", "l", ",", " ", "o", "f", "f", "s", "e", "t", ":", "0", " ", "=", "1", " ", "{", "a", "}", " ", "=", "1", "2", " ", "{", "b", "}", " ", "o", "t", "h", "e", "r", " ", "{", "c", "}", "}">>,
   <<"{", "c", "o", "u", "n", "t", ",", " ", "p", "l", "u", "r", "a", "l", ",", " ", "o", "f", "f", "s", "e", "t", ":", "-", "1", " ", "o", "n", "e", " ", "{", "a", "}", " ", "o", "t", "h", "e", "r", " ", "{", "b", "}", "}">>,
   <<"{", "v", ",", " ", "p", "l", "u", "r", "a", "l", ",", " ", "o", "f", "f", "s", "e", "t", ":", "0", " ", "o", "n", "e", " ", "{", "a", "}", " ", "o", "t", "h", "e", "r", " ", "{", "b", "}", "}">>,
   <<"{", "v", ",", " ", "p", "l", "u", "r", "a", "l", ",", " ", "o", "f", "f", "s", "e", "t", ":", "1", "a", "b", "c", " ", "o", "n", "e", " ", "{", "a", "}", " ", "o", "t", "h", "e", "r", " ", "{", "b", "}", "}">>,
   <<"{", "v", ",", " ", "p", "l", "u", "r", "a", "l", ",", " ", "o", "f", "f", "s", "e", "t", ":", "a", "b", "c", " ", "o", "n", "e", " ", "{", "a", "}", " ", "o", "t", "h", "e", "r", " ", "{", "b", "}", "}">>,
   <<"{", "v", ",", " ", "p", "l", "u", "r", "a", "l", ",", " ", "o", "f", "f", "s", "e", "t", ":", " ", "=", "0", " ", "{", "a", "}", " ", "o", "t", "h", "e", "r", " ", "{", "b", "}", "}">>}

\* bodies with nested braces, and bodies and formats with quoted braces
NestedExamples ==
  {<<"{", "g", ",", " ", "s", "e", "l", "e", "c", "t", ",", " ", "a", " ", "{", "x", " ", "{", "y", " ", "{", "z", "}", "}", " ", "w", "}", " ", "o", "t", "h", "e", "r", " ", "{", "{", "{", "q", "}", "}", "}", "}">>,
   <<"{", "v", ",", " ", "p", "l", "u", "r", "a", "l", ",", " ", "o", "f", "f", "s", "e", "t", ":", "1", " ", "o", "n", "e", " ", "{", "a", " ", "{", "b", "}", " ", "c", "}", " ", "o", "t", "h", "e", "r", " ", "{", "d", "}", "}">>,
   <<"{", "v", ",", " ", "p", "l", "u", "r", "a", "l", ",", " ", "o", "f", "f", "s", "e", "t", ":", "1", " ", "o", "n", "e", " ", "{", "a", " ", "'", "{", "'", " ", "b", "}", " ", "o", "t", "h", "e", "r", " ", "{", "c", "}", "}">>,
   <<"{", "g", ",", " ", "s", "e", "l", "e", "c", "t", ",", " ", "a", " ", "{", "x", " ", "'", "}", "'", " ", "y", "}", " ", "o", "t", "h", "e", "r", " ", "{", "z", "}", "}">>,
   <<"{", "n", ",", " ", "n", "u", "m", "b", "e", "r", ",", " ", "a", " ", "'", "}", "'", " ", "b", "}">>}

Examples ==
  {ScenarioA, ScenarioB, ScenarioE, ReadmeExample, TypedExample, OrdinalExample,
   EmptyTypeExample} \cup OffsetExamples \cup NestedExamples

Messages == Concatenations(MaxChunks) \cup Examples

\* translations = {} and options = {} (or no options at all)
NoTranslations == [text |-> <<>>, plurals |-> <<>>, selects |-> <<>>]
NoOptions ==
  [targetLanguage |-> Undefined, validateCategories |-> FALSE,
   preserveExactMatches |-> FALSE]

\* Scenario C: the translated set for `count` supplies only `one` and `other`
ScenarioCTranslations ==
  [NoTranslations EXCEPT
     !.plurals = (count :> [variable |-> count,
                            translations |-> <<PluralVariant(one, <<"#", " ", "p", "r", "e", "d", "m", "e", "t">>),
                                               PluralVariant(other, <<"#", " ", "p", "r", "e", "d", "m", "e", "t", "o", "v">>)>>])]
ScenarioCOptions ==
  [targetLanguage |-> <<"r", "u">>, validateCategories |-> TRUE,
   preserveExactMatches |-> TRUE]

\* translated options for the selects on `gender` (Scenario E) and `g`, supplied
\* in another order than the source's
SelectTranslations ==
  [NoTranslations EXCEPT
     !.selects =
       (<<"g", "e", "n", "d", "e", "r">> :> [variable |-> <<"g", "e", "n", "d", "e", "r">>,
                     translations |-> <<SelectOption(other, <<"O", "n", "i">>),
                                        SelectOption(<<"m", "a", "l", "e">>, <<"O", "n">>)>>]) @@
       (<<"g">> :> [variable |-> <<"g">>,
                translations |-> <<SelectOption(other, <<"d">>),
                                   SelectOption(one, <<"e">>)>>])]

ReconstructCalls ==
  {[translations |-> NoTranslations, options |-> NoOptions],
   [translations |-> SelectTranslations, options |-> NoOptions],
   [translations |-> ScenarioCTranslations, options |-> ScenarioCOptions],
   [translations |-> [NoTranslations EXCEPT !.text = (0 :> <<"T">>)],
    options |-> [NoOptions EXCEPT !.validateCategories = TRUE]]}

\* variant lists handed directly to reconstructPlural / reconstructSelectordinal
Variants ==
  {PluralVariant(c, t) : c \in {<<"=", "1">>, one, other}, t \in {<<"x">>, <<"y">>}}
    \cup {PluralVariant(<<"=", "2">>, <<"x">>), PluralVariant(few, <<"x">>),
          PluralVariant(<<"z", "z">>, <<"x">>), PluralVariant(one, <<>>)}

RECURSIVE VariantLists(_)
VariantLists(n) ==
  IF n = 0 THEN {<<>>}
  ELSE LET shorter == VariantLists(n - 1)
       IN  shorter \cup {Append(l, v) : l \in shorter, v \in Variants}

DirectCalls ==
  {[fn |-> "reconstructPlural", name |-> <<"v">>, variants |-> l, offset |-> o] :
     l \in VariantLists(MaxVariants), o \in {Undefined, Number(1)}}
  \cup
  {[fn |-> "reconstructSelectordinal", name |-> <<"v">>, variants |-> l,
    offset |-> Undefined] : l \in VariantLists(MaxVariants)}

DirectOptions ==
  {NoOptions} \cup
  {[NoOptions EXCEPT !.validateCategories = TRUE, !.targetLanguage = l] :
     l \in {Undefined, <<"r", "u">>, <<"j", "a">>, <<"e", "n", "-", "U", "S">>}}

-----------------------------------------------------------------------------
(* parseICUMessage followed by reconstructICUMessage *)

\* the return value with isComplex taken from hasPlurals alone
parsedPluralsOnly ==
  [original |-> message, elements |-> elements, hasPlurals |-> hasPlurals,
   hasSelect |-> hasSelect, variables |-> variables,
   isComplex |-> hasPlurals]

\* parseICUMessage: the ParsedICUMessage returned
parsed ==
  [original |-> message, elements |-> elements, hasPlurals |-> hasPlurals,
   hasSelect |-> hasSelect, variables |-> variables,
   isComplex |-> hasPlurals \/ hasSelect]

InitParse ==
  /\ events = <<>>
  /\ message \in Messages
  /\ pos = 0
  /\ elements = <<>>
  /\ variables = <<>>
  /\ hasPlurals = FALSE
  /\ hasSelect = FALSE
  /\ iter = 0
  /\ pc = "parse"
  /\ error = Undefined
  /\ translations = NoTranslations
  /\ options = NoOptions
  /\ output = Undefined
  /\ call = Undefined
  /\ validated = Undefined

\* the loop state of the call in progress
lexerState ==
  [status |-> pc, pos |-> pos, elements |-> elements, variables |-> variables,
   hasPlurals |-> hasPlurals, hasSelect |-> hasSelect, error |-> error]

\* one iteration of the top-level loop
Iterate ==
  /\ pc = "parse"
  /\ iter < MaxIter
  /\ ~isEnd(message, pos)
  /\ iter' = iter + 1
  /\ \E next \in {parseIteration(message, lexerState)} :
       /\ pc' = next.status
       /\ pos' = next.pos
       /\ elements' = next.elements
       /\ variables' = next.variables
       /\ hasPlurals' = next.hasPlurals
       /\ hasSelect' = next.hasSelect
       /\ error' = next.error
  /\ UNCHANGED <<events, message, translations, options, output, call, validated>>

\* an iteration that starts on '{': an argument, plural, select or selectordinal
ParseArgument == peek(message, pos) = "{" /\ Iterate

\* an iteration that starts on any other character: plain text
ParseText == peek(message, pos) # "{" /\ Iterate

\* the loop ends and parseICUMessage returns
ParseReturn ==
  /\ pc = "parse"
  /\ isEnd(message, pos)
  /\ pc' = "returned"
  /\ UNCHANGED <<events, message, pos, elements, variables, hasPlurals, hasSelect, iter,
                 error, translations, options, output, call, validated>>

\* reconstructICUMessage(parsed, translations, options)
Reconstruct ==
  /\ pc = "returned"
  /\ \E c \in ReconstructCalls :
       /\ translations' = translationsAfter(elements, c.translations, c.options)
       /\ options' = c.options
       /\ output' = reconstructICUMessage(parsed, c.translations, c.options)
       /\ elements' = elementsAfter(elements, c.translations, c.options)
  /\ pc' = "reconstructed"
  /\ UNCHANGED <<events, message, pos, variables, hasPlurals, hasSelect, iter,
                 error, call, validated>>

\* extractTextSegments(parsed)
ExtractTextSegments ==
  /\ pc = "returned"
  /\ output' = extractTextSegments(parsed)
  /\ pc' = "extracted"
  /\ UNCHANGED <<events, message, pos, elements, variables, hasPlurals, hasSelect, iter,
                 error, translations, options, call, validated>>

NextParse ==
  ParseArgument \/ ParseText \/ ParseReturn \/ Reconstruct \/ ExtractTextSegments

SpecParse == InitParse /\ [][NextParse]_vars

-----------------------------------------------------------------------------
(* reconstructPlural and reconstructSelectordinal called directly *)

InitVariants ==
  /\ events = <<>>
  /\ call \in DirectCalls
  /\ options \in DirectOptions
  /\ pc = "call"
  /\ validated = Undefined
  /\ output = Undefined
  /\ message = <<>>
  /\ pos = 0
  /\ elements = <<>>
  /\ variables = <<>>
  /\ hasPlurals = FALSE
  /\ hasSelect = FALSE
  /\ iter = 0
  /\ error = Undefined
  /\ translations = NoTranslations

ReconstructPlural ==
  /\ pc = "call"
  /\ call.fn = "reconstructPlural"
  /\ validated' = validatedVariants(call.variants, options, FALSE)
  /\ output' = reconstructPlural(call.name, call.variants, call.offset, options)
  /\ pc' = "done"
  /\ UNCHANGED <<events, message, pos, elements, variables, hasPlurals, hasSelect, iter,
                 error, translations, options, call>>

ReconstructSelectordinal ==
  /\ pc = "call"
  /\ call.fn = "reconstructSelectordinal"
  /\ validated' = validatedVariants(call.variants, options, TRUE)
  /\ output' = reconstructSelectordinal(call.name, call.variants, options)
  /\ pc' = "done"
  /\ UNCHANGED <<events, message, pos, elements, variables, hasPlurals, hasSelect, iter,
                 error, translations, options, call>>

NextVariants == ReconstructPlural \/ ReconstructSelectordinal

SpecVariants == InitVariants /\ [][NextVariants]_vars

-----------------------------------------------------------------------------
(* getPluralRules and getCategoryExamples called directly *)

\* String.prototype.toUpperCase
toUpperCase(str) ==
  [i \in 1..Len(str) |->
     IF \E k \in 1..26 : LowerCase[k] = str[i]
     THEN UpperCase[CHOOSE k \in 1..26 : LowerCase[k] = str[i]]
     ELSE str[i]]

PLURAL_CATEGORIES == <<zero, one, two, few, many, other>>

\* primary subtags: the keys of the table, names it does not hold, the empty string
PrimarySubtags ==
  DOMAIN PLURAL_RULES \cup DOMAIN ObjectPrototype \cup {<<"u", "n", "k", "n", "o", "w", "n">>, <<"x", "x">>, <<>>}

\* language tags of at most n subtags, in lower and in upper case
RECURSIVE LanguageTags(_)
LanguageTags(n) ==
  IF n = 1 THEN PrimarySubtags \cup {toUpperCase(t) : t \in PrimarySubtags}
  ELSE LET shorter == LanguageTags(n - 1)
       IN  shorter \cup {t \o <<"-">> \o sub : t \in shorter, sub \in {<<"U", "S">>, <<"H", "a", "n", "s">>}}

RuleCalls ==
  {[fn |-> "getPluralRules", languageCode |-> t, category |-> other,
    isOrdinal |-> FALSE] : t \in LanguageTags(MaxSubtags)}
  \cup
  {[fn |-> "getCategoryExamples", languageCode |-> t,
    category |-> PLURAL_CATEGORIES[c], isOrdinal |-> o] :
     t \in LanguageTags(MaxSubtags), c \in 1..Len(PLURAL_CATEGORIES), o \in BOOLEAN}

InitRules ==
  /\ events = <<>>
  /\ call \in RuleCalls
  /\ pc = "call"
  /\ output = Undefined
  /\ validated = Undefined
  /\ options = NoOptions
  /\ message = <<>>
  /\ pos = 0
  /\ elements = <<>>
  /\ variables = <<>>
  /\ hasPlurals = FALSE
  /\ hasSelect = FALSE
  /\ iter = 0
  /\ error = Undefined
  /\ translations = NoTranslations

GetPluralRules ==
  /\ pc = "call"
  /\ call.fn = "getPluralRules"
  /\ output' = getPluralRules(call.languageCode)
  /\ pc' = "done"
  /\ UNCHANGED <<events, message, pos, elements, variables, hasPlurals, hasSelect, iter,
                 error, translations, options, call, validated>>

GetCategoryExamples ==
  /\ pc = "call"
  /\ call.fn = "getCategoryExamples"
  /\ output' = getCategoryExamples(call.languageCode, call.category, call.isOrdinal)
  /\ pc' = "done"
  /\ UNCHANGED <<events, message, pos, elements, variables, hasPlurals, hasSelect, iter,
                 error, translations, options, call, validated>>

NextRules == GetPluralRules \/ GetCategoryExamples

SpecRules == InitRules /\ [][NextRules]_vars

-----------------------------------------------------------------------------
(* hasICUPatterns and isSimpleArgument called directly *)

\* String.prototype.includes
includes(str, searchString) ==
  \E i \in 0..(Len(str) - Len(searchString)) :
     SubSeq(str, i + 1, i + Len(searchString)) = searchString

hasICUPatternsNoBrace(input) ==
  \/ includes(input, <<",", " ", "p", "l", "u", "r", "a", "l", ",">>)
  \/ includes(input, <<",", "p", "l", "u", "r", "a", "l", ",">>)
  \/ includes(input, <<",", " ", "s", "e", "l", "e", "c", "t", ",">>)
  \/ includes(input, <<",", "s", "e", "l", "e", "c", "t", ",">>)
  \/ includes(input, <<",", " ", "s", "e", "l", "e", "c", "t", "o", "r", "d", "i", "n", "a", "l", ",">>)
  \/ includes(input, <<",", "s", "e", "l", "e", "c", "t", "o", "r", "d", "i", "n", "a", "l", ",">>)
hasICUPatterns(input) ==
  /\ includes(input, <<"{">>)
  /\ (\/ includes(input, <<",", " ", "p", "l", "u", "r", "a", "l", ",">>)
      \/ includes(input, <<",", "p", "l", "u", "r", "a", "l", ",">>)
      \/ includes(input, <<",", " ", "s", "e", "l", "e", "c", "t", ",">>)
      \/ includes(input, <<",", "s", "e", "l", "e", "c", "t", ",">>)
      \/ includes(input, <<",", " ", "s", "e", "l", "e", "c", "t", "o", "r", "d", "i", "n", "a", "l", ",">>)
      \/ includes(input, <<",", "s", "e", "l", "e", "c", "t", "o", "r", "d", "i", "n", "a", "l", ",">>))

\* /^\{[a-zA-Z_][a-zA-Z0-9_]*\}$/.test(trimmed)
isSimpleArgument(input) ==
  LET trimmed == trim(input)
  IN  /\ Len(trimmed) >= 3
      /\ trimmed[1] = "{"
      /\ trimmed[2] \in Letters \cup {"_"}
      /\ \A k \in 3..(Len(trimmed) - 1) : trimmed[k] \in Letters \cup Digits \cup {"_"}
      /\ trimmed[Len(trimmed)] = "}"

\* the pieces probed messages are made of: braces, white space, identifier
\* characters, a bare argument, and the six substrings of the probe
Pieces ==
  {<<"{">>, <<"}">>, <<" ">>, <<"{", "n", "a", "m", "e", "}">>, <<"1">>, <<"-">>, <<"_">>,
   <<",", " ", "p", "l", "u", "r", "a", "l", ",">>, <<",", "p", "l", "u", "r", "a", "l", ",">>, <<",", " ", "s", "e", "l", "e", "c", "t", ",">>, <<",", "s", "e", "l", "e", "c", "t", ",">>,
   <<",", " ", "s", "e", "l", "e", "c", "t", "o", "r", "d", "i", "n", "a", "l", ",">>, <<",", "s", "e", "l", "e", "c", "t", "o", "r", "d", "i", "n", "a", "l", ",">>}

RECURSIVE PieceStrings(_)
PieceStrings(n) ==
  IF n = 0 THEN {<<>>}
  ELSE LET shorter == PieceStrings(n - 1)
       IN  shorter \cup {m \o piece : m \in shorter, piece \in Pieces}

PlainText == <<"H", "e", "l", "l", "o", ",", " ", "W", "o", "r", "l", "d", "!">>

ProbeCalls ==
  {[fn |-> f, message |-> m] :
     f \in {"hasICUPatterns", "isSimpleArgument"},
     m \in PieceStrings(MaxPieces) \cup Examples \cup {PlainText}}

InitProbe ==
  /\ events = <<>>
  /\ call \in ProbeCalls
  /\ pc = "call"
  /\ output = Undefined
  /\ validated = Undefined
  /\ options = NoOptions
  /\ message = <<>>
  /\ pos = 0
  /\ elements = <<>>
  /\ variables = <<>>
  /\ hasPlurals = FALSE
  /\ hasSelect = FALSE
  /\ iter = 0
  /\ error = Undefined
  /\ translations = NoTranslations

HasICUPatterns ==
  /\ pc = "call"
  /\ call.fn = "hasICUPatterns"
  /\ output' = hasICUPatterns(call.message)
  /\ pc' = "done"
  /\ UNCHANGED <<events, message, pos, elements, variables, hasPlurals, hasSelect, iter,
                 error, translations, options, call, validated>>

IsSimpleArgument ==
  /\ pc = "call"
  /\ call.fn = "isSimpleArgument"
  /\ output' = isSimpleArgument(call.message)
  /\ pc' = "done"
  /\ UNCHANGED <<events, message, pos, elements, variables, hasPlurals, hasSelect, iter,
                 error, translations, options, call, validated>>

NextProbe == HasICUPatterns \/ IsSimpleArgument

SpecProbe == InitProbe /\ [][NextProbe]_vars

-----------------------------------------------------------------------------
(* BatchProcessor.processSequentially *)

\* the calls: a list of batches (numbers, as in the unit test) and a processor
\* that, for each batch, resolves with twice the number, rejects with an
\* Error, or rejects with a value that is not an Error
BatchCalls ==
  {[fn |-> "processSequentially", batches |-> b, processor |-> p] :
     b \in UNION {[1..n -> 1..3] : n \in 0..MaxBatches},
     p \in [1..3 -> {"resolves", "rejects", "rejects with a string"}]}

InitBatch ==
  /\ call \in BatchCalls
  /\ pc = "call"
  /\ output = <<>>
  /\ iter = 0
  /\ events = <<>>
  /\ validated = Undefined
  /\ options = NoOptions
  /\ message = <<>>
  /\ pos = 0
  /\ elements = <<>>
  /\ variables = <<>>
  /\ hasPlurals = FALSE
  /\ hasSelect = FALSE
  /\ error = Undefined
  /\ translations = NoTranslations

\* for (const batch of batches) { ... await this.processor(batch)
StartProcessor ==
  /\ pc = "call"
  /\ iter < Len(call.batches)
  /\ iter' = iter + 1
  /\ events' = Append(events, [op |-> "start", batch |-> call.batches[iter + 1]])
  /\ pc' = "await"
  /\ UNCHANGED <<message, pos, elements, variables, hasPlurals, hasSelect,
                 error, translations, options, output, call, validated>>

\* results.push({ batch, result })
ProcessorResolves ==
  /\ pc = "await"
  /\ call.processor[call.batches[iter]] = "resolves"
  /\ events' = Append(events, [op |-> "settle", batch |-> call.batches[iter]])
  /\ output' = Append(output, [batch |-> call.batches[iter],
                                result |-> 2 * call.batches[iter]])
  /\ pc' = "call"
  /\ UNCHANGED <<message, pos, elements, variables, hasPlurals, hasSelect, iter,
                 error, translations, options, call, validated>>

\* a rejection that leaves no outcome
ProcessorRejectsUnrecorded ==
  /\ pc = "await"
  /\ call.processor[call.batches[iter]] # "resolves"
  /\ events' = Append(events, [op |-> "settle", batch |-> call.batches[iter]])
  /\ pc' = "call"
  /\ UNCHANGED <<message, pos, elements, variables, hasPlurals, hasSelect, iter,
                 error, translations, options, output, call, validated>>
\* catch (error) { results.push({ batch, error: error instanceof Error ? error
\* : new Error(String(error)) }) }
ProcessorRejects ==
  /\ pc = "await"
  /\ call.processor[call.batches[iter]] # "resolves"
  /\ events' = Append(events, [op |-> "settle", batch |-> call.batches[iter]])
  /\ output' = Append(output,
                      [batch |-> call.batches[iter],
                       error |-> IF call.processor[call.batches[iter]] = "rejects"
                                 THEN [name |-> "Error", message |-> "Test error"]
                                 ELSE [name |-> "Error", message |-> "a string"]])
  /\ pc' = "call"
  /\ UNCHANGED <<message, pos, elements, variables, hasPlurals, hasSelect, iter,
                 error, translations, options, call, validated>>

\* return results
ReturnResults ==
  /\ pc = "call"
  /\ iter = Len(call.batches)
  /\ pc' = "done"
  /\ UNCHANGED <<events, message, pos, elements, variables, hasPlurals, hasSelect, iter,
                 error, translations, options, output, call, validated>>

NextBatch == StartProcessor \/ ProcessorResolves \/ ProcessorRejects \/ ReturnResults

SpecBatch == InitBatch /\ [][NextBatch]_vars

-----------------------------------------------------------------------------
(* withRetry *)

\* what a call of fn settles with when it resolves; a value it rejects with
\* has the same fields: its class (or "string" for a value that is no Error),
\* its message, and the fields of TranslatorError and RateLimitError
Resolved == [class |-> "resolved", message |-> <<"o", "k">>, isRetryable |-> FALSE, retryAfter |-> 0]

isRetryableError(err) ==
  IF err.class = "RateLimitError" THEN TRUE
  ELSE IF err.class \in {"TranslatorError", "AuthenticationError"} THEN err.isRetryable
  ELSE IF err.class = "Error" THEN
    \E r \in {toLowerCase(err.message)} :
      \/ includes(r, <<"t", "i", "m", "e", "o", "u", "t">>)
      \/ includes(r, <<"e", "c", "o", "n", "n", "r", "e", "s", "e", "t">>)
      \/ includes(r, <<"e", "c", "o", "n", "n", "r", "e", "f", "u", "s", "e", "d">>)
      \/ includes(r, <<"s", "o", "c", "k", "e", "t", " ", "h", "a", "n", "g", " ", "u", "p">>)
      \/ includes(r, <<"n", "e", "t", "w", "o", "r", "k">>)
      \/ includes(r, <<"5", "0", "2">>)
      \/ includes(r, <<"5", "0", "3">>)
      \/ includes(r, <<"5", "0", "4">>)
      \/ includes(r, <<"r", "a", "t", "e", " ", "l", "i", "m", "i", "t">>)
  ELSE FALSE

Rejections ==
  {[class |-> "RateLimitError", message |-> <<"R", "a", "t", "e", " ", "l", "i", "m", "i", "t", " ", "e", "x", "c", "e", "e", "d", "e", "d", " ", "f", "o", "r", " ", "p", "r", "o", "v", "i", "d", "e", "r", ":", " ", "x">>,
    isRetryable |-> TRUE, retryAfter |-> 5],
   [class |-> "TranslatorError", message |-> <<"o", "v", "e", "r", "l", "o", "a", "d", "e", "d">>,
    isRetryable |-> TRUE, retryAfter |-> 0],
   [class |-> "AuthenticationError", message |-> <<"A", "u", "t", "h", "e", "n", "t", "i", "c", "a", "t", "i", "o", "n", " ", "f", "a", "i", "l", "e", "d", " ", "f", "o", "r", " ", "p", "r", "o", "v", "i", "d", "e", "r", ":", " ", "x">>,
    isRetryable |-> FALSE, retryAfter |-> 0],
   [class |-> "Error", message |-> <<"R", "e", "q", "u", "e", "s", "t", " ", "T", "i", "m", "e", "o", "u", "t">>, isRetryable |-> FALSE, retryAfter |-> 0],
   [class |-> "Error", message |-> <<"B", "a", "d", " ", "r", "e", "q", "u", "e", "s", "t">>, isRetryable |-> FALSE, retryAfter |-> 0],
   [class |-> "string", message |-> <<"t", "i", "m", "e", "o", "u", "t">>, isRetryable |-> FALSE, retryAfter |-> 0]}

\* the calls: what each call of fn in turn settles with, and
\* options = { maxRetries, jitter: false }
RetryCalls ==
  {[fn |-> "withRetry", settles |-> o, maxRetries |-> m] :
     o \in [1..(MaxRetries + 1) -> {Resolved} \cup Rejections], m \in -1..MaxRetries}

InitRetry ==
  /\ call \in RetryCalls
  /\ pc = "call"
  /\ iter = 0
  /\ events = <<>>
  /\ output = Undefined
  /\ error = Undefined
  /\ validated = Undefined
  /\ options = NoOptions
  /\ message = <<>>
  /\ pos = 0
  /\ elements = <<>>
  /\ variables = <<>>
  /\ hasPlurals = FALSE
  /\ hasSelect = FALSE
  /\ translations = NoTranslations

\* for (let attempt = 0; attempt <= opts.maxRetries; attempt++) { try { return await fn()
CallFn ==
  /\ pc = "call"
  /\ iter <= call.maxRetries
  /\ events' = Append(events, [op |-> "fn", ms |-> 0])
  /\ pc' = "await"
  /\ UNCHANGED <<message, pos, elements, variables, hasPlurals, hasSelect, iter,
                 error, translations, options, output, call, validated>>

FnResolves ==
  /\ pc = "await"
  /\ call.settles[iter + 1] = Resolved
  /\ output' = Resolved.message
  /\ pc' = "done"
  /\ UNCHANGED <<events, message, pos, elements, variables, hasPlurals, hasSelect, iter,
                 error, translations, options, call, validated>>

\* the catch block without its sleep
FnRejectsWithoutSleep ==
  /\ pc = "await"
  /\ call.settles[iter + 1] # Resolved
  /\ \E err \in {call.settles[iter + 1]} :
       IF ~isRetryableError(err) \/ iter >= call.maxRetries
       THEN /\ error' = err
            /\ pc' = "thrown"
            /\ UNCHANGED <<events, iter>>
       ELSE /\ iter' = iter + 1
            /\ pc' = "call"
            /\ UNCHANGED <<events, error>>
  /\ UNCHANGED <<message, pos, elements, variables, hasPlurals, hasSelect,
                 translations, options, output, call, validated>>
\* the catch block up to `await sleep(delay)`; delay is calculateDelay(attempt,
\* opts) with the default initialDelayMs 1000, backoffMultiplier 2 and
\* maxDelayMs 60000, raised to retryAfter * 1000 when that is larger
FnRejects ==
  /\ pc = "await"
  /\ call.settles[iter + 1] # Resolved
  /\ \E err \in {call.settles[iter + 1]} :
       IF ~isRetryableError(err) \/ iter >= call.maxRetries
       THEN /\ error' = err
            /\ pc' = "thrown"
            /\ UNCHANGED events
       ELSE LET power == 1000 * 2 ^ iter
                delay == IF power < 60000 THEN power ELSE 60000
                retryAfter == IF err.class = "RateLimitError" THEN err.retryAfter ELSE 0
            IN  /\ events' = Append(events,
                                    [op |-> "sleep",
                                     ms |-> IF retryAfter > 0 /\ retryAfter * 1000 > delay
                                            THEN retryAfter * 1000 ELSE delay])
                /\ pc' = "sleep"
                /\ UNCHANGED error
  /\ UNCHANGED <<message, pos, elements, variables, hasPlurals, hasSelect, iter,
                 translations, options, output, call, validated>>

\* the sleep is over: attempt++
SleepElapses ==
  /\ pc = "sleep"
  /\ iter' = iter + 1
  /\ pc' = "call"
  /\ UNCHANGED <<events, message, pos, elements, variables, hasPlurals, hasSelect,
                 error, translations, options, output, call, validated>>

\* `throw lastError` after the loop; lastError is still undefined when the
\* loop has not run, and an integer maxRetries lets the loop end in no other way
ThrowLastError ==
  /\ pc = "call"
  /\ iter > call.maxRetries
  /\ error' = Undefined
  /\ pc' = "thrown"
  /\ UNCHANGED <<events, message, pos, elements, variables, hasPlurals, hasSelect, iter,
                 translations, options, output, call, validated>>

NextRetry == CallFn \/ FnResolves \/ FnRejects \/ SleepElapses \/ ThrowLastError

SpecRetry == InitRetry /\ [][NextRetry]_vars

-----------------------------------------------------------------------------
(* buildUserPrompt *)

\* buildICUInstructions: the instructions, or Undefined for null. A source on
\* which parseICUMessage does not return is left to the caller
buildICUInstructions(source, targetLanguage) ==
  LET RECURSIVE join(_, _)
      join(list, separator) ==
        IF list = <<>> THEN <<>>
        ELSE IF Len(list) = 1 THEN list[1]
        ELSE list[1] \o separator \o join(Tail(list), separator)
      \* `${n}` for an example number, an integer or one of the table's halves
      numberText(x) ==
        IF ToString(x) \in {ToString(Half(1)), ToString(Half(3)), ToString(Half(5))}
        THEN numberToString(x[1] \div 2) \o <<".", "5">>
        ELSE numberToString(x)
      descriptions ==
        (zero :> <<"U", "s", "e", "d", " ", "f", "o", "r", " ", "z", "e", "r", "o", " ", "q", "u", "a", "n", "t", "i", "t", "y">>) @@
        (one :> <<"U", "s", "e", "d", " ", "f", "o", "r", " ", "s", "i", "n", "g", "u", "l", "a", "r", " ", "(", "t", "y", "p", "i", "c", "a", "l", "l", "y", " ", "1", ")">>) @@
        (two :> <<"U", "s", "e", "d", " ", "f", "o", "r", " ", "d", "u", "a", "l", " ", "(", "t", "y", "p", "i", "c", "a", "l", "l", "y", " ", "2", ")">>) @@
        (few :> <<"U", "s", "e", "d", " ", "f", "o", "r", " ", "s", "m", "a", "l", "l", " ", "n", "u", "m", "b", "e", "r", "s">>) @@
        (many :> <<"U", "s", "e", "d", " ", "f", "o", "r", " ", "l", "a", "r", "g", "e", "r", " ", "n", "u", "m", "b", "e", "r", "s">>) @@
        (other :> <<"D", "e", "f", "a", "u", "l", "t", "/", "f", "a", "l", "l", "b", "a", "c", "k", " ", "f", "o", "r", "m">>)
      formatCategoryDescription(category) ==
        LET examples == getCategoryExamples(targetLanguage, category, FALSE)
            first == SubSeq(examples, 1, IF Len(examples) < 5 THEN Len(examples) ELSE 5)
        IN  category \o <<":", " ">> \o descriptions[category]
              \o (IF Len(examples) > 0
                  THEN <<" ", "(", "e", ".", "g", ".", ",", " ">> \o join([k \in 1..Len(first) |-> numberText(first[k])], <<",", " ">>)
                         \o <<")">>
                  ELSE <<>>)
  IN
  Only({(
    IF parsedMessage.status = "thrown" THEN Undefined
    ELSE IF ~(parsedMessage.hasPlurals \/ parsedMessage.hasSelect) THEN Undefined
    ELSE
      LET targetCategories == getCardinalCategories(targetLanguage)
          plurals ==
            IF \E i \in 1..Len(parsedMessage.elements) : parsedMessage.elements[i].type = "plural"
            THEN <<"T", "h", "i", "s", " ", "c", "o", "n", "t", "a", "i", "n", "s", " ", "p", "l", "u", "r", "a", "l", " ", "f", "o", "r", "m", "s", ".", " ", "T", "a", "r", "g", "e", "t", " ", "l", "a", "n", "g", "u", "a", "g", "e", " ", "(">> \o targetLanguage
                   \o <<")", " ", "r", "e", "q", "u", "i", "r", "e", "s", ":", " ">> \o join(targetCategories, <<",", " ">>) \o <<".", " ">>
                   \o <<"P", "r", "o", "v", "i", "d", "e", " ", "t", "r", "a", "n", "s", "l", "a", "t", "i", "o", "n", "s", " ", "f", "o", "r", " ", "e", "a", "c", "h", " ", "r", "e", "q", "u", "i", "r", "e", "d", " ", "p", "l", "u", "r", "a", "l", " ", "c", "a", "t", "e", "g", "o", "r", "y", ".", " ">>
                   \o <<"C", "a", "t", "e", "g", "o", "r", "i", "e", "s", ":", " ">>
                   \o join([k \in 1..Len(targetCategories) |->
                              formatCategoryDescription(targetCategories[k])], <<";", " ">>)
                   \o <<".", " ">>
            ELSE <<>>
          selects ==
            IF \E i \in 1..Len(parsedMessage.elements) : parsedMessage.elements[i].type = "select"
            THEN <<"T", "h", "i", "s", " ", "c", "o", "n", "t", "a", "i", "n", "s", " ", "s", "e", "l", "e", "c", "t", " ", "p", "a", "t", "t", "e", "r", "n", "s", ".", " ", "T", "r", "a", "n", "s", "l", "a", "t", "e", " ", "e", "a", "c", "h", " ", "o", "p", "t", "i", "o", "n", " ", "v", "a", "l", "u", "e", " ", "w", "h", "i", "l", "e", " ", "k", "e", "e", "p", "i", "n", "g", " ", "o", "p", "t", "i", "o", "n", " ", "k", "e", "y", "s", " ", "u", "n", "c", "h", "a", "n", "g", "e", "d", ".", " ">>
            ELSE <<>>
      IN  IF trim(plurals \o selects) = <<>> THEN Undefined ELSE trim(plurals \o selects))
    : parsedMessage \in {parseICUMessage(source)}})

\* the calls: units with a plain source, sources the parser accepts, the
\* README example (which it rejects) and a source with a `}` too many (on
\* which it does not return); from `en` to `ru` or `en`, handleICU set or not
PromptCalls ==
  LET unit(id, source, context, notes) ==
        [id |-> id, source |-> source, context |-> context, metadata |-> [notes |-> notes]]
      pool ==
        {unit(<<"u", "1">>, ScenarioA, Undefined, Undefined),
         unit(<<"u", "2">>, ScenarioB, <<"c", "a", "r", "t">>, Undefined),
         unit(<<"u", "3">>, ScenarioE, Undefined, <<"p", "r", "o", "n", "o", "u", "n">>),
         unit(<<"u", "4">>, ReadmeExample, Undefined, Undefined),
         unit(<<"u", "5">>, <<"{", "n", ",", " ", "p", "l", "u", "r", "a", "l", ",", " ", "=", "0", " ", "{", "a", "}", " ", "o", "t", "h", "e", "r", " ", "{", "b", "}", "}", "}">>, Undefined, Undefined),
         unit(<<"u", "6">>, <<"{", "g", ",", " ", "s", "e", "l", "e", "c", "t", ",", " ", "o", "t", "h", "e", "r", " ", "{", "x", "}", "}", " ", "{", "n", "}">>, Undefined, Undefined)}
  IN  {[fn |-> "buildUserPrompt", units |-> u, sourceLanguage |-> <<"e", "n">>,
        targetLanguage |-> t, handleICU |-> h] :
         u \in UNION {[1..n -> pool] : n \in 0..MaxUnits}, t \in {<<"r", "u">>, <<"e", "n">>},
         h \in BOOLEAN}

\* let prompt = `Translate the following ${units.length} string(s) from ...`
InitPrompt ==
  /\ call \in PromptCalls
  /\ pc = "build"
  /\ iter = 0
  /\ output = <<"T", "r", "a", "n", "s", "l", "a", "t", "e", " ", "t", "h", "e", " ", "f", "o", "l", "l", "o", "w", "i", "n", "g", " ">> \o numberToString(Len(call.units))
                \o <<" ", "s", "t", "r", "i", "n", "g", "(", "s", ")", " ", "f", "r", "o", "m", " ">> \o call.sourceLanguage \o <<" ", "t", "o", " ">>
                \o call.targetLanguage \o <<":">> \o <<"\n", "\n">>
  /\ events = <<>>
  /\ error = Undefined
  /\ validated = Undefined
  /\ options = NoOptions
  /\ message = <<>>
  /\ pos = 0
  /\ elements = <<>>
  /\ variables = <<>>
  /\ hasPlurals = FALSE
  /\ hasSelect = FALSE
  /\ translations = NoTranslations

\* one turn of `for (const unit of units)`; when parseICUMessage does not
\* return, the turn never ends
AppendUnit ==
  /\ pc = "build"
  /\ iter < Len(call.units)
  /\ \E unit \in {call.units[iter + 1]} :
       IF /\ call.handleICU
          /\ hasICUPatterns(unit.source)
          /\ parseICUMessage(unit.source).status = "hang"
       THEN UNCHANGED <<output, iter>>
       ELSE
         \E icuInfo \in {IF call.handleICU /\ hasICUPatterns(unit.source)
                          THEN buildICUInstructions(unit.source, call.targetLanguage)
                          ELSE Undefined} :
           /\ output' =
                output \o <<"I", "D", ":", " ">> \o unit.id \o <<"\n">>
                  \o <<"S", "o", "u", "r", "c", "e", ":", " ">> \o unit.source \o <<"\n">>
                  \o (IF unit.context # Undefined /\ unit.context # <<>>
                      THEN <<"C", "o", "n", "t", "e", "x", "t", ":", " ">> \o unit.context \o <<"\n">> ELSE <<>>)
                  \o (IF unit.metadata.notes # Undefined /\ unit.metadata.notes # <<>>
                      THEN <<"N", "o", "t", "e", "s", ":", " ">> \o unit.metadata.notes \o <<"\n">> ELSE <<>>)
                  \o (IF icuInfo # Undefined
                      THEN <<"I", "C", "U", " ", "I", "n", "s", "t", "r", "u", "c", "t", "i", "o", "n", "s", ":", " ">> \o icuInfo \o <<"\n">> ELSE <<>>)
                  \o <<"\n">>
           /\ iter' = iter + 1
  /\ UNCHANGED <<events, message, pos, elements, variables, hasPlurals, hasSelect,
                 pc, error, translations, options, call, validated>>

\* prompt += 'Respond with JSON containing all translations.'; return prompt
ReturnPrompt ==
  /\ pc = "build"
  /\ iter = Len(call.units)
  /\ output' = output \o <<"R", "e", "s", "p", "o", "n", "d", " ", "w", "i", "t", "h", " ", "J", "S", "O", "N", " ", "c", "o", "n", "t", "a", "i", "n", "i", "n", "g", " ", "a", "l", "l", " ", "t", "r", "a", "n", "s", "l", "a", "t", "i", "o", "n", "s", ".">>
  /\ pc' = "done"
  /\ UNCHANGED <<events, message, pos, elements, variables, hasPlurals, hasSelect, iter,
                 error, translations, options, call, validated>>

NextPrompt == AppendUnit \/ ReturnPrompt

SpecPrompt == InitPrompt /\ [][NextPrompt]_vars

-----------------------------------------------------------------------------
(* Properties of the parser *)

\* C1: parseICUMessage is total; the top-level loop never iterates without
\* advancing the cursor.
C1_LoopAdvances == [][pc = "parse" /\ pc' = "parse" => pos' > pos]_vars

\* the source of a plural or selectordinal without offset clause
PluralSource(keyword, name, vs) ==
  <<"{">> \o name \o <<",", " ">> \o keyword \o <<",">> \o emitVariants(vs) \o <<"}">>

BareFirstLists ==
  {<<PluralVariant(one, <<"a">>)>>,
   <<PluralVariant(one, <<"#", " ", "i", "t", "e", "m">>), PluralVariant(other, <<"#", " ", "i", "t", "e", "m", "s">>)>>,
   <<PluralVariant(one, <<"#", "s", "t">>), PluralVariant(two, <<"#", "n", "d">>),
     PluralVariant(few, <<"#", "r", "d">>), PluralVariant(other, <<"#", "t", "h">>)>>}

\* C2: a plural or selectordinal without offset clause whose first category is
\* a bare identifier parses to one element named v with exactly the source's
\* variants in source order.
C2_BareFirstCategory ==
  \A keyword \in {<<"p", "l", "u", "r", "a", "l">>, <<"s", "e", "l", "e", "c", "t", "o", "r", "d", "i", "n", "a", "l">>}, name \in {<<"v">>, count, <<"p", "l", "a", "c", "e">>},
     vs \in BareFirstLists :
    (message = PluralSource(keyword, name, vs) /\ pc # "parse") =>
      /\ pc # "thrown"
      /\ Len(elements) = 1
      /\ elements[1].type = (IF keyword = <<"p", "l", "u", "r", "a", "l">> THEN "plural" ELSE "selectordinal")
      /\ elements[1].name = name
      /\ elements[1].variants = vs

\* C3: for a message without plural/select constructs that the parser accepts,
\* reconstructICUMessage(parseICUMessage(m), {}, {}) equals m.
C3_RoundTrip ==
  (/\ pc = "reconstructed"
   /\ translations = NoTranslations
   /\ options = NoOptions
   /\ ~hasPlurals
   /\ ~hasSelect) => output = message

\* the names of the elements of a list, and of everything nested in their
\* variant texts and option values
RECURSIVE namesIn(_)
textsOf(e) ==
  IF e.type \in {"plural", "selectordinal"}
  THEN {e.variants[i].text : i \in 1..Len(e.variants)}
  ELSE IF e.type = "select"
  THEN {e.options[i].value : i \in 1..Len(e.options)}
  ELSE {}
namesIn(elems) ==
  UNION {(IF elems[i].type = "text" THEN {} ELSE {elems[i].name})
           \cup UNION {namesIn(parseICUMessage(t).elements) : t \in textsOf(elems[i])}
         : i \in 1..Len(elems)}

\* C8: variables holds every distinct name of the message, names nested in
\* variant texts and option values included, each exactly once.
C8_AllVariables ==
  pc = "returned" =>
    \A name \in namesIn(elements) :
      Cardinality({i \in 1..Len(variables) : variables[i] = name}) = 1

\* the brace depth after each prefix of a message without quotes
depthAfter(msg, k) ==
  Cardinality({i \in 1..k : msg[i] = "{"}) - Cardinality({i \in 1..k : msg[i] = "}"})

Unbalanced(msg) ==
  /\ \A k \in 1..Len(msg) : msg[k] # "'"
  /\ \/ depthAfter(msg, Len(msg)) # 0
     \/ \E k \in 1..Len(msg) : depthAfter(msg, k) < 0

\* C9: a message with unbalanced braces is never returned as a ParsedMessage.
C9_UnbalancedRejected == pc = "returned" => ~Unbalanced(message)

\* C10: the elements of a returned ParsedMessage are in source order with
\* non-empty, non-overlapping spans.
C10_SpansOrdered ==
  pc = "returned" =>
    \A i \in 1..Len(elements) :
      /\ elements[i].start < elements[i].end
      /\ i < Len(elements) => elements[i].end <= elements[i + 1].start

C10_Witness ==
  /\ pc = "returned"
  /\ Len(elements) >= 3
  /\ \E i, j, k \in 1..Len(elements) :
       /\ elements[i].type = "text"
       /\ elements[j].type = "argument"
       /\ elements[k].type \in {"plural", "select", "selectordinal"}

\* C5: Scenario C. Reconstructing Scenario B's message for `ru` with a
\* translation entry for `count` that supplies only `one` and `other` yields
\* the variants =0 (the source's), one, few, many, other, where few and many
\* carry the translated `other` text.
C5_ScenarioC ==
  (/\ message = ScenarioB
   /\ pc = "reconstructed"
   /\ translations = ScenarioCTranslations
   /\ options = ScenarioCOptions) =>
    output = <<"{", "c", "o", "u", "n", "t", ",", " ", "p", "l", "u", "r", "a", "l", ",", " ", "o", "f", "f", "s", "e", "t", ":", "1", " ", "=", "0", " ", "{", "N", "o", " ", "i", "t", "e", "m", "s", "}", " ", "o", "n", "e", " ", "{", "#", " ", "p", "r", "e", "d", "m", "e", "t", "}", " ", "f", "e", "w", " ", "{", "#", " ", "p", "r", "e", "d", "m", "e", "t", "o", "v", "}", " ", "m", "a", "n", "y", " ", "{", "#", " ", "p", "r", "e", "d", "m", "e", "t", "o", "v", "}", " ", "o", "t", "h", "e", "r", " ", "{", "#", " ", "p", "r", "e", "d", "m", "e", "t", "o", "v", "}", "}">>

-----------------------------------------------------------------------------
(* Properties of reconstructPlural and reconstructSelectordinal *)

categoriesOf(list) == {list[i].category : i \in 1..Len(list)}

occurrences(list, v) == Cardinality({i \in 1..Len(list) : list[i] = v})

exactVariants(list) == {list[i] : i \in {j \in 1..Len(list) : IsExact(list[j].category)}}

\* options.targetLanguage ?? 'en'
targetLanguage == IF options.targetLanguage = Undefined THEN <<"e", "n">> ELSE options.targetLanguage

\* no variant with a CLDR or other category comes before an exact-match variant
ExactFirst(list) ==
  \A i, j \in 1..Len(list) :
    (i < j /\ IsExact(list[j].category)) => IsExact(list[i].category)

\* C4: with validateCategories the emitted variants are exactly one variant per
\* category of getCardinalCategories(L) plus the supplied exact-match variants.
C4_CategoryCompleteness ==
  (pc = "done" /\ call.fn = "reconstructPlural" /\ options.validateCategories) =>
    LET required == getCardinalCategories(targetLanguage) IN
      /\ \A k \in 1..Len(required) :
           Cardinality({i \in 1..Len(validated) : validated[i].category = required[k]}) = 1
      /\ \A i \in 1..Len(validated) :
           \/ IsExact(validated[i].category)
           \/ \E k \in 1..Len(required) : required[k] = validated[i].category
      /\ \A v \in exactVariants(validated) \cup exactVariants(call.variants) :
           occurrences(validated, v) = occurrences(call.variants, v)

emitted(list) ==
  IF call.fn = "reconstructPlural"
  THEN <<"{">> \o call.name \o <<",", " ", "p", "l", "u", "r", "a", "l", ",">>
         \o (IF call.offset = Undefined \/ NumberValue(call.offset) <= 0 THEN <<>>
             ELSE <<" ", "o", "f", "f", "s", "e", "t", ":">> \o numberToString(NumberValue(call.offset)))
         \o emitVariants(list) \o <<"}">>
  ELSE <<"{">> \o call.name \o <<",", " ", "s", "e", "l", "e", "c", "t", "o", "r", "d", "i", "n", "a", "l", ",">> \o emitVariants(list) \o <<"}">>

-----------------------------------------------------------------------------
(* Properties of the returned ParsedICUMessage *)

\* C11: in every returned ParsedICUMessage isComplex = (hasPlurals or
\* hasSelect), hasPlurals holds exactly when the elements contain a plural or
\* selectordinal element, and hasSelect exactly when they contain a select.
C11_Flags ==
  pc = "returned" =>
    /\ parsed.isComplex = (parsed.hasPlurals \/ parsed.hasSelect)
    /\ parsed.hasPlurals =
         (\E i \in 1..Len(parsed.elements) :
            parsed.elements[i].type \in {"plural", "selectordinal"})
    /\ parsed.hasSelect =
         (\E i \in 1..Len(parsed.elements) : parsed.elements[i].type = "select")

C11_Witness ==
  /\ pc = "returned"
  /\ parsed.isComplex
  /\ parsed.hasSelect
  /\ ~parsed.hasPlurals
  /\ \E i, j \in 1..Len(elements) :
       elements[i].type = "select" /\ elements[j].type = "text"

-----------------------------------------------------------------------------
(* Properties of reconstructICUMessage *)

\* the three forms an argument element may be written in
ArgumentForms(e) ==
  {<<"{">> \o e.name \o <<"}">>}
    \cup (IF e.argType = Undefined THEN {}
          ELSE {<<"{">> \o e.name \o <<",", " ">> \o e.argType \o <<"}">>})
    \cup (IF e.argType = Undefined \/ e.format = Undefined THEN {}
          ELSE {<<"{">> \o e.name \o <<",", " ">> \o e.argType \o <<",", " ">> \o e.format \o <<"}">>})

\* the forms among them that keep a format the element was parsed with
KeptForms(e) ==
  IF e.format = Undefined \/ e.format = <<>> THEN ArgumentForms(e)
  ELSE {<<"{">> \o e.name \o <<",", " ">> \o e.argType \o <<",", " ">> \o e.format \o <<"}">>}

\* the outputs that write every argument element from index i on in a form
\* that keeps its format, and every other element as the reconstructor does
RECURSIVE VerbatimOutputs(_, _)
VerbatimOutputs(elems, i) ==
  IF i >= Len(elems) THEN {<<>>}
  ELSE {piece \o rest :
          piece \in (IF elems[i + 1].type = "argument" THEN KeptForms(elems[i + 1])
                     ELSE {reconstructElement(elems[i + 1], i, translations, options)}),
          rest \in VerbatimOutputs(elems, i + 1)}

\* C12: reconstructICUMessage writes every argument element as {name},
\* {name, type} or {name, type, format} from the parsed fields alone, whatever
\* the translations hold, and keeps a format the argument was parsed with.
C12_ArgumentsVerbatim ==
  pc = "reconstructed" => output \in VerbatimOutputs(elements, 0)

\* the translated value for a key, and whether there is one
HasKey(translated, key) == \E k \in 1..Len(translated) : translated[k].key = key
ValueFor(translated, key) ==
  translated[CHOOSE k \in 1..Len(translated) : translated[k].key = key].value

\* the original options the caller translated, in the original order, with the
\* translated values
OptionsByKey(original, translated) ==
  LET kept == SelectSeq(original, LAMBDA o : HasKey(translated, o.key))
  IN  [k \in 1..Len(kept) |->
         SelectOption(kept[k].key, ValueFor(translated, kept[k].key))]

\* the output that writes every translated select from index i on with
\* OptionsByKey, and every other element as the reconstructor does
RECURSIVE ByKeyOutput(_, _)
ByKeyOutput(elems, i) ==
  IF i >= Len(elems) THEN <<>>
  ELSE (IF elems[i + 1].type = "select" /\ MapHas(translations.selects, elems[i + 1].name)
        THEN <<"{">> \o elems[i + 1].name \o <<",", " ", "s", "e", "l", "e", "c", "t", ",">>
               \o emitOptions(OptionsByKey(elems[i + 1].options,
                     translations.selects[elems[i + 1].name].translations))
               \o <<"}">>
        ELSE reconstructElement(elems[i + 1], i, translations, options))
         \o ByKeyOutput(elems, i + 1)

\* C13: with a translation entry for a select's variable the output options
\* are the translated options matched to the originals by key, in the original
\* order; an omitted original is absent and nothing is synthesized.
C13_SelectByKey ==
  pc = "reconstructed" => output = ByKeyOutput(elements, 0)

-----------------------------------------------------------------------------
(* Properties of extractTextSegments *)

\* the texts a ParsedICUMessage element offers for translation
TranslatableTexts(e) ==
  IF e.type = "text" THEN <<e.value>>
  ELSE IF e.type \in {"plural", "selectordinal"}
  THEN [k \in 1..Len(e.variants) |-> e.variants[k].text]
  ELSE IF e.type = "select" THEN [k \in 1..Len(e.options) |-> e.options[k].value]
  ELSE <<>>

\* the segments of a list that carry index i, in list order
SegmentsAt(segments, i) == SelectSeq(segments, LAMBDA sg : sg.index = i)

\* C14: extractTextSegments returns, in element order, one segment per text
\* element (its value, no context), one per variant of a plural or
\* selectordinal, one per option of a select and none for an argument; a
\* segment's index is the position of its element in parsed.elements.
C14_Segments ==
  pc = "extracted" =>
    /\ \A a, b \in 1..Len(output) : a < b => output[a].index <= output[b].index
    /\ \A a \in 1..Len(output) : output[a].index \in 0..(Len(elements) - 1)
    /\ \A i \in 0..(Len(elements) - 1) :
         LET own == SegmentsAt(output, i) IN
           /\ [k \in 1..Len(own) |-> own[k].text] = TranslatableTexts(elements[i + 1])
           /\ elements[i + 1].type = "text" => own[1].context = Undefined

C14_Witness ==
  /\ pc = "extracted"
  /\ \E a, b \in 1..Len(output) :
       /\ output[a].index = 0
       /\ output[a].context = Undefined
       /\ output[b].index > 0
       /\ output[b].context # Undefined

-----------------------------------------------------------------------------
(* Properties of the CLDR rule table *)

\* C15: for every language tag, known or unknown, the rule set returned by
\* getPluralRules has non-empty cardinalCategories and ordinalCategories
\* lists, and both contain `other`.
C15_NonEmptyWithOther ==
  (pc = "done" /\ call.fn = "getPluralRules") =>
    \A list \in {"cardinalCategories", "ordinalCategories"} :
      /\ list \in DOMAIN output
      /\ Len(output[list]) > 0
      /\ \E k \in 1..Len(output[list]) : output[list][k] = other

\* the lowercased text of a tag before its first `-`
PrimarySubtag(tag) ==
  LET low == toLowerCase(tag)
      dashes == {k \in 1..Len(low) : low[k] = "-"}
      end == IF dashes = {} THEN Len(low)
             ELSE (CHOOSE k \in dashes : \A j \in dashes : k <= j) - 1
  IN  SubSeq(low, 1, end)

\* C16: getPluralRules depends only on the lowercased text of the tag before
\* its first `-`, and a tag whose subtag is no key of the rule table gets the
\* default rule set.
C16_PrimarySubtagOnly ==
  (pc = "done" /\ call.fn = "getPluralRules") =>
    /\ \A t \in LanguageTags(MaxSubtags) :
         PrimarySubtag(t) = PrimarySubtag(call.languageCode) => getPluralRules(t) = output
    /\ PrimarySubtag(call.languageCode) \notin DOMAIN PLURAL_RULES =>
         /\ output = DEFAULT_RULES
         /\ output.cardinalCategories = <<one, other>>
         /\ output.ordinalCategories = <<other>>

\* C17: getCategoryExamples returns an empty list when the category is not in
\* the language's required set for the mode, and a non-empty list when it is,
\* for every language of the table and for the default rule set.
C17_ExamplesIffRequired ==
  (/\ pc = "done"
   /\ call.fn = "getCategoryExamples"
   /\ PrimarySubtag(call.languageCode) \notin DOMAIN ObjectPrototype) =>
    LET required == IF call.isOrdinal THEN getOrdinalCategories(call.languageCode)
                    ELSE getCardinalCategories(call.languageCode)
    IN  (\E k \in 1..Len(required) : required[k] = call.category) <=> Len(output) > 0

C17_Witness ==
  /\ pc = "done"
  /\ call.fn = "getCategoryExamples"
  /\ call.languageCode = <<"E", "N", "-", "U", "S">>
  /\ call.category = two
  /\ call.isOrdinal
  /\ output = <<2, 22, 32, 42>>

\* the six substrings of the probe
PluralOrSelectMarks ==
  {<<",", " ", "p", "l", "u", "r", "a", "l", ",">>, <<",", "p", "l", "u", "r", "a", "l", ",">>, <<",", " ", "s", "e", "l", "e", "c", "t", ",">>, <<",", "s", "e", "l", "e", "c", "t", ",">>,
   <<",", " ", "s", "e", "l", "e", "c", "t", "o", "r", "d", "i", "n", "a", "l", ",">>, <<",", "s", "e", "l", "e", "c", "t", "o", "r", "d", "i", "n", "a", "l", ",">>}

\* str holds sub at some position
Occurs(sub, str) ==
  \E from \in 1..Len(str) :
     /\ from + Len(sub) - 1 <= Len(str)
     /\ \A k \in 1..Len(sub) : str[from + k - 1] = sub[k]

\* C18: hasICUPatterns(m) is true exactly when m contains `{` and at least one
\* of the six substrings; it is false for the bare argument `{name}` and for
\* plain text.
C18_ProbeExact ==
  (pc = "done" /\ call.fn = "hasICUPatterns") =>
    /\ output = TRUE <=>
         /\ \E k \in 1..Len(call.message) : call.message[k] = "{"
         /\ \E mark \in PluralOrSelectMarks : Occurs(mark, call.message)
    /\ call.message \in {<<"{", "n", "a", "m", "e", "}">>, PlainText} => output = FALSE
C18_Witness ==
  /\ pc = "done"
  /\ call.fn = "hasICUPatterns"
  /\ call.message = <<"{", "n", "a", "m", "e", "}", ",", "s", "e", "l", "e", "c", "t", ",">>
  /\ output = TRUE

\* C19: isSimpleArgument(m) is true if and only if m, trimmed, is `{`, then a
\* non-empty identifier as readIdentifier reads it, then `}`.
C19_SimpleArgumentIffIdentifier ==
  (pc = "done" /\ call.fn = "isSimpleArgument") =>
    LET trimmed == trim(call.message)
        identifier == readIdentifier(trimmed, 1)
    IN  output = TRUE <=>
          /\ Len(trimmed) >= 3
          /\ trimmed[1] = "{"
          /\ identifier.result # <<>>
          /\ identifier.pos = Len(trimmed) - 1
          /\ trimmed[Len(trimmed)] = "}"

\* the source of a plural with an offset clause
OffsetSource(name, offset, vs) ==
  <<"{">> \o name \o <<",", " ", "p", "l", "u", "r", "a", "l", ",", " ", "o", "f", "f", "s", "e", "t", ":">> \o numberToString(offset)
    \o emitVariants(vs) \o <<"}">>

OffsetLists ==
  {<<>>,
   <<PluralVariant(one, <<"a">>)>>,
   <<PluralVariant(<<"=", "0">>, <<"c">>)>>,
   <<PluralVariant(other, <<"b", " ", "{", "m", "}">>)>>,
   <<PluralVariant(one, <<"a">>), PluralVariant(other, <<"b">>)>>,
   <<PluralVariant(<<"=", "1">>, <<"a">>), PluralVariant(<<"=", "1", "2">>, <<"b">>), PluralVariant(other, <<"c">>)>>,
   <<PluralVariant(<<"=", "0">>, <<"N", "o", " ", "i", "t", "e", "m", "s">>), PluralVariant(one, <<"O", "n", "e", " ", "i", "t", "e", "m">>),
     PluralVariant(other, <<"#", " ", "i", "t", "e", "m", "s">>)>>}

\* C20: a plural message with an `offset:N` clause parses to one plural element
\* with offset N and the source's variants in source order, exact-match
\* categories kept as `=N` strings.
C20_OffsetAndVariants ==
  \A name \in {<<"v">>, <<"n">>, count}, offset \in {-1, 0, 1, 12}, vs \in OffsetLists :
    (message = OffsetSource(name, offset, vs) /\ pc # "parse") =>
      /\ pc # "thrown"
      /\ Len(elements) = 1
      /\ elements[1].type = "plural"
      /\ elements[1].name = name
      /\ elements[1].offset = Number(offset)
      /\ elements[1].variants = vs
C20_Witness ==
  /\ message = ScenarioB
  /\ pc = "returned"
  /\ Len(elements) = 1
  /\ elements[1].offset = Number(1)
  /\ elements[1].variants = <<PluralVariant(<<"=", "0">>, <<"N", "o", " ", "i", "t", "e", "m", "s">>), PluralVariant(one, <<"O", "n", "e", " ", "i", "t", "e", "m">>),
                               PluralVariant(other, <<"#", " ", "i", "t", "e", "m", "s">>)>>

SelectSource(name, opts) ==
  <<"{">> \o name \o <<",", " ", "s", "e", "l", "e", "c", "t", ",">>
    \o (IF Len(opts) > 0 THEN <<" ">> \o opts[1].key \o <<" ", "{">> \o opts[1].value \o <<"}">> ELSE <<>>)
    \o (IF Len(opts) > 1 THEN <<" ">> \o opts[2].key \o <<" ", "{">> \o opts[2].value \o <<"}">> ELSE <<>>)
    \o <<"}">>

NestedOptionLists ==
  {<<SelectOption(other, <<"b", " ", "{", "m", "}">>)>>,
   <<SelectOption(<<"m", "a", "l", "e">>, <<"{", "c", "o", "u", "n", "t", ",", " ", "p", "l", "u", "r", "a", "l", ",", " ", "o", "n", "e", " ", "{", "#", " ", "i", "t", "e", "m", "}", " ", "o", "t", "h", "e", "r", " ", "{", "#", " ", "i", "t", "e", "m", "s", "}", "}">>),
     SelectOption(other, <<"T", "h", "e", "y">>)>>,
   <<SelectOption(<<"a">>, <<"x", " ", "{", "y", " ", "{", "z", "}", "}", " ", "w">>), SelectOption(other, <<"{", "{", "q", "}", "}">>)>>}

NestedVariantLists ==
  {<<PluralVariant(other, <<"b", " ", "{", "m", "}">>)>>,
   <<PluralVariant(one, <<"a", " ", "{", "b", "}", " ", "c">>), PluralVariant(other, <<"d">>)>>}

\* C23: the text of a plural variant and the value of a select option with
\* nested braces is the source between the body's opening brace and its
\* matching closing brace, and the variants and options after it are parsed.
C23_BalancedRead ==
  /\ \A name \in {<<"g">>, <<"g", "e", "n", "d", "e", "r">>}, opts \in NestedOptionLists :
       (message = SelectSource(name, opts) /\ pc # "parse") =>
         /\ pc # "thrown"
         /\ Len(elements) = 1
         /\ elements[1].type = "select"
         /\ elements[1].options = opts
  /\ \A vs \in NestedVariantLists :
       (message = OffsetSource(<<"v">>, 1, vs) /\ pc # "parse") =>
         /\ pc # "thrown"
         /\ Len(elements) = 1
         /\ elements[1].variants = vs
C23_Witness ==
  /\ pc = "returned"
  /\ message = <<"{", "g", ",", " ", "s", "e", "l", "e", "c", "t", ",", " ", "a", " ", "{", "x", " ", "{", "y", " ", "{", "z", "}", "}", " ", "w", "}", " ", "o", "t", "h", "e", "r", " ", "{", "{", "{", "q", "}", "}", "}", "}">>
  /\ elements[1].options = <<SelectOption(<<"a">>, <<"x", " ", "{", "y", " ", "{", "z", "}", "}", " ", "w">>), SelectOption(other, <<"{", "{", "q", "}", "}">>)>>

\* C26: a brace inside a quoted span does not change the brace depth, in the
\* read of a variant or option body and in the read of an argument format.
C26_QuotedBraces ==
  /\ (message = <<"{", "v", ",", " ", "p", "l", "u", "r", "a", "l", ",", " ", "o", "f", "f", "s", "e", "t", ":", "1", " ", "o", "n", "e", " ", "{", "a", " ", "'", "{", "'", " ", "b", "}", " ", "o", "t", "h", "e", "r", " ", "{", "c", "}", "}">> /\ pc # "parse") =>
       /\ pc = "returned"
       /\ Len(elements) = 1
       /\ elements[1].variants = <<PluralVariant(one, <<"a", " ", "'", "{", "'", " ", "b">>), PluralVariant(other, <<"c">>)>>
  /\ (message = <<"{", "g", ",", " ", "s", "e", "l", "e", "c", "t", ",", " ", "a", " ", "{", "x", " ", "'", "}", "'", " ", "y", "}", " ", "o", "t", "h", "e", "r", " ", "{", "z", "}", "}">> /\ pc # "parse") =>
       /\ pc = "returned"
       /\ Len(elements) = 1
       /\ elements[1].options = <<SelectOption(<<"a">>, <<"x", " ", "'", "}", "'", " ", "y">>), SelectOption(other, <<"z">>)>>
  /\ (message = <<"{", "n", ",", " ", "n", "u", "m", "b", "e", "r", ",", " ", "a", " ", "'", "}", "'", " ", "b", "}">> /\ pc # "parse") =>
       /\ pc = "returned"
       /\ Len(elements) = 1
       /\ elements[1].format = <<"a", " ", "'", "}", "'", " ", "b">>

\* the position of a category in an ordered output: 0 for an exact match, 1 to
\* 6 for zero, one, two, few, many, other, 7 for any other name
OrderClass(category) ==
  IF IsExact(category) THEN 0
  ELSE IF indexOf(category) # -1 THEN indexOf(category) + 1
  ELSE 7

\* exact matches first, then the CLDR categories in their fixed order, then
\* the other names in lexicographic order
ClassesInOrder(list) ==
  \A i, j \in 1..Len(list) :
    i < j =>
      /\ OrderClass(list[i].category) <= OrderClass(list[j].category)
      /\ (OrderClass(list[i].category) = 7 /\ OrderClass(list[j].category) = 7) =>
           localeCompare(list[i].category, list[j].category) <= 0

\* C25: after category validation the list has the exact-match variants first
\* in their input order, then the CLDR categories in the order zero, one, two,
\* few, many, other, then the unrecognized names in lexicographic order.
C25_OrderAfterValidation ==
  (pc = "done" /\ options.validateCategories) =>
    /\ ClassesInOrder(validated)
    /\ SelectSeq(validated, LAMBDA v : IsExact(v.category))
         = SelectSeq(call.variants, LAMBDA v : IsExact(v.category))

\* the type and the name of every element of a list, in order
TypesAndNames(elems) ==
  [i \in 1..Len(elems) |-> <<elems[i].type, elems[i].name>>]

\* C27: the message reconstructICUMessage builds from a parsed message is
\* accepted by parseICUMessage, with elements of the same types and names in
\* the same order.
C27_ReconstructedParses ==
  pc = "reconstructed" =>
    \E again \in {parseICUMessage(output)} :
      /\ again.status = "returned"
      /\ TypesAndNames(again.elements) = TypesAndNames(elements)

\* C28: every element of a returned ParsedMessage has a span inside the
\* original string, 0 <= start < end <= length.
C28_SpansInside ==
  pc = "returned" =>
    \A i \in 1..Len(elements) :
      /\ 0 <= elements[i].start
      /\ elements[i].start < elements[i].end
      /\ elements[i].end <= Len(message)

\* C30: a plural whose `offset:` value is not a decimal integer literal
\* (empty, alphabetic, or digits followed by other identifier characters) makes
\* parseICUMessage raise ICUParseError.
C30_BadOffsetRaises ==
  (/\ message \in {<<"{", "v", ",", " ", "p", "l", "u", "r", "a", "l", ",", " ", "o", "f", "f", "s", "e", "t", ":", "1", "a", "b", "c", " ", "o", "n", "e", " ", "{", "a", "}", " ", "o", "t", "h", "e", "r", " ", "{", "b", "}", "}">>,
                   <<"{", "v", ",", " ", "p", "l", "u", "r", "a", "l", ",", " ", "o", "f", "f", "s", "e", "t", ":", "a", "b", "c", " ", "o", "n", "e", " ", "{", "a", "}", " ", "o", "t", "h", "e", "r", " ", "{", "b", "}", "}">>,
                   <<"{", "v", ",", " ", "p", "l", "u", "r", "a", "l", ",", " ", "o", "f", "f", "s", "e", "t", ":", " ", "=", "0", " ", "{", "a", "}", " ", "o", "t", "h", "e", "r", " ", "{", "b", "}", "}">>}
   /\ pc # "parse") => pc = "thrown"

\* C24: processSequentially returns one outcome per batch in input order; the
\* processor is started on a batch only after its call for the batch before
\* has settled; a rejection is recorded as an outcome with the batch and the
\* error, and the batches after it are processed.
C24_Sequential ==
  /\ \A k \in 1..Len(events) :
       /\ events[k].op = (IF k % 2 = 1 THEN "start" ELSE "settle")
       /\ events[k].batch = call.batches[(k + 1) \div 2]
  /\ pc = "done" =>
       /\ Len(events) = 2 * Len(call.batches)
       /\ Len(output) = Len(call.batches)
       /\ \A i \in 1..Len(output) :
            /\ output[i].batch = call.batches[i]
            /\ IF call.processor[call.batches[i]] = "resolves"
               THEN DOMAIN output[i] = {"batch", "result"}
               ELSE DOMAIN output[i] = {"batch", "error"}
C24_Witness ==
  /\ pc = "done"
  /\ call.batches = <<1, 2, 3>>
  /\ call.processor[1] = "resolves"
  /\ call.processor[2] = "rejects"
  /\ call.processor[3] = "resolves"
  /\ Len(output) = 3
  /\ "error" \in DOMAIN output[2]
  /\ output[3] = [batch |-> 3, result |-> 6]

\* the number of calls of fn so far
FnCalls == Cardinality({k \in 1..Len(events) : events[k].op = "fn"})

\* the rejections of Rejections that isRetryableError accepts: a rate limit
\* error, a translator error flagged retryable, an Error whose message names a
\* timeout
RetryableRejections ==
  {r \in Rejections :
     \/ r.class = "RateLimitError"
     \/ r.class = "TranslatorError" /\ r.isRetryable
     \/ r.class = "Error" /\ r.message = <<"R", "e", "q", "u", "e", "s", "t", " ", "T", "i", "m", "e", "o", "u", "t">>}

\* C29: withRetry calls fn at most maxRetries + 1 times and never after a
\* success; an error that is not retryable is rethrown right after the call
\* that produced it; after maxRetries + 1 retryable failures the last error is
\* thrown; exactly one sleep lies between two consecutive calls.
C29_RetryDiscipline ==
  /\ FnCalls <= call.maxRetries + 1
  /\ \A j \in 1..(FnCalls - 1) : call.settles[j] \in RetryableRejections
  /\ \A k \in 1..Len(events) : events[k].op = (IF k % 2 = 1 THEN "fn" ELSE "sleep")
  /\ pc = "done" => call.settles[FnCalls] = Resolved /\ output = <<"o", "k">>
  /\ (pc = "thrown" /\ FnCalls > 0) =>
       /\ error = call.settles[FnCalls]
       /\ error \in Rejections
       /\ error \notin RetryableRejections \/ FnCalls = call.maxRetries + 1
       /\ events[Len(events)].op = "fn"
  /\ (pc \in {"call", "sleep"} /\ FnCalls > 0) => call.settles[FnCalls] \in RetryableRejections
C29_Witness ==
  /\ pc = "thrown"
  /\ call.maxRetries = 2
  /\ FnCalls = 3
  /\ Len(events) = 5
  /\ events[2] = [op |-> "sleep", ms |-> 5000]
  /\ events[4] = [op |-> "sleep", ms |-> 2000]
  /\ error.class = "Error"
  /\ error.message = <<"R", "e", "q", "u", "e", "s", "t", " ", "T", "i", "m", "e", "o", "u", "t">>

\* the ID and Source lines of a unit
UnitLines(unit) ==
  <<"I", "D", ":", " ">> \o unit.id \o <<"\n">> \o <<"S", "o", "u", "r", "c", "e", ":", " ">> \o unit.source \o <<"\n">>

\* buildUserPrompt is at a unit on whose source parseICUMessage does not return
PromptStuck ==
  /\ pc = "build"
  /\ iter < Len(call.units)
  /\ call.handleICU
  /\ hasICUPatterns(call.units[iter + 1].source)
  /\ parseICUMessage(call.units[iter + 1].source).status = "hang"

\* C22: when parseICUMessage raises on the source of some unit, buildUserPrompt
\* still returns, and that unit and every unit after it are in the prompt
\* with their ID and Source lines.
C22_FailureIsolated ==
  \A i \in 1..Len(call.units) :
    parseICUMessage(call.units[i].source).status = "thrown" =>
      /\ ~PromptStuck
      /\ pc = "done" =>
           \A j \in i..Len(call.units) : Occurs(UnitLines(call.units[j]), output)

====
